---- MODULE Spec2Model ----
(***************************************************************************)
(* A model of the maker bot's control loop (backend/app/trading/engine.py) *)
(* and of its uptime accountant (backend/app/uptime/tracker.py).           *)
(*                                                                         *)
(* The program runs on one asyncio event loop.  A coroutine runs without   *)
(* interruption from one await that really suspends to the next, so every  *)
(* action below is one such run: it starts where a coroutine is resumed    *)
(* (a response arrives, a sleep ends, a lock is granted, a cancellation is *)
(* delivered) and ends where the coroutine suspends again.                 *)
(*                                                                         *)
(* SpecEngine is the life cycle of TradingEngine: start, stop, kill and    *)
(* the tick tasks they spawn and cancel, against an exchange that holds    *)
(* the resting orders.                                                     *)
(* SpecTicks is the tick loop alone, with no stop and no kill.             *)
(* SpecUptime, SpecHour and SpecDay are UptimeTracker under a wall clock,  *)
(* its calls being the actions Tick, HourTick and DayTick with arguments   *)
(* drawn from sets.  In the specifications of the engine the wall clock    *)
(* stands still: a tick of the engine hands the tracker its arguments and  *)
(* the tracker credits no time.  The engine's view of the order book (is   *)
(* there a mid price, does an order need a refresh) is a choice, too.      *)
(* SpecBook is Orderbook under the depth channel; SpecConfig is the        *)
(* engine under POST /config requests.                                     *)
(* SpecQuote is QuoteGenerator.generate under the calls of its callers.    *)
(* SpecRound is the quantity rounding of _place_order under its sizes.     *)
(* SpecFeed is MarketDataClient's connection loop with its failures and   *)
(* back-off; SpecMaker is the tick loop reading the order book that the    *)
(* depth feed fills, the spread being set by POST /config.                 *)
(* SpecSwitch is switch_symbol on a stopped engine; SpecRest is one call   *)
(* of a REST helper of the engine under every answer of the exchange.      *)
(***************************************************************************)
EXTENDS Integers, Sequences, FiniteSets

(***************************************************************************)
(* Bounds of the model.                                                    *)
(***************************************************************************)
\* tick tasks that start() may create in one behaviour
MaxTasks == 2
\* placements the exchange accepts in one behaviour
MaxOrders == 2
\* calls of UptimeTracker.tick in one behaviour of SpecUptime
MaxTicks == 3
\* the latest clock reading in a behaviour of SpecHour: the last second of the second hour
MaxClock == 7199
\* clock hours a behaviour of SpecDay runs through: the history fills and evicts twice
MaxHours == 26
\* POST /config requests answered in one behaviour
MaxRequests == 2
\* connection attempts of the depth feed that fail in a row
MaxFails == 7

(***************************************************************************)
(* Program constants.                                                      *)
(***************************************************************************)
\* settings.max_consecutive_failures (its default)
max_consecutive_failures == 5
\* MAKER_MAX_SPREAD_BPS
MAKER_MAX_SPREAD_BPS == 5
\* seconds in a clock hour (_get_current_hour)
HourSeconds == 3600
\* the cap on one tick's elapsed time, in seconds
ElapsedCap == 10
\* the deque's maxlen
HistoryMaxLen == 24
\* self._max_reconnect_delay, in seconds
max_reconnect_delay == 60
\* settings.max_spread_deviation_bps (its default)
max_spread_deviation_bps == 200

Tasks == 1..MaxTasks
OrderIds == 1..MaxOrders
\* self._task is None
NoTask == 0

VARIABLES
    \* ---- TradingEngine fields
    status,                 \* self._status
    consecutive_failures,   \* self._consecutive_failures
    active_orders,          \* self._active_orders: the ids in the shadow map
    task,                   \* self._task: a task id, or NoTask
    lock,                   \* self._lock is held
    \* ---- the tick tasks (one _main_loop coroutine each)
    tpc,                    \* where each task is suspended
    tcancel,                \* Task.cancel() was called and is not yet delivered
    texch,                  \* _cancel_all_orders' exchange_orders still to cancel
    tord,                   \* the order id in the response a task is waiting for
    \* ---- the stop() and kill() calls in progress
    stop_pc, stop_exch, stop_ok,
    kill_pc, kill_exch, kill_ok, kill_task,
    \* ---- the exchange
    placed,                 \* side of every order accepted so far, by id
    resting                 \* ids of the orders resting on the book

engineVars == <<status, consecutive_failures, active_orders, task, lock,
                tpc, tcancel, texch, tord,
                stop_pc, stop_exch, stop_ok,
                kill_pc, kill_exch, kill_ok, kill_task,
                placed, resting>>

    \* ---- the wall clock and the UptimeTracker fields
VARIABLES
    now,                    \* time.time() at its last reading, in seconds
    last_tick,              \* self._last_tick
    current_hour,           \* self._current_hour
    current_record,         \* self._current_record
    history,                \* self._history, oldest record first
    is_active,              \* self._is_active
    nticks                  \* tick() calls so far (bounds the behaviours)

uptimeVars == <<now, last_tick, current_hour, current_record, history, is_active, nticks>>

VARIABLES
    \* ---- what a tick holds and hands over
    tquote,                 \* the spread of the quote a task's tick generated: {} or {bps}
    uptime_args             \* the arguments of _tick's last uptime_tracker.tick call

tickVars == <<tquote, uptime_args>>

VARIABLES
    \* ---- Orderbook fields
    ob_symbol,              \* self.symbol
    ob_bids,                \* self._bids: size by price
    ob_asks                 \* self._asks: size by price

bookVars == <<ob_symbol, ob_bids, ob_asks>>

VARIABLES
    \* ---- MarketDataClient and its socket
    ws,                     \* self._ws is set
    subscribed,             \* symbols the exchange sends depth frames for
    frame,                  \* the depth frame on its way to _handle_message
    conn,                   \* where _connection_loop is: "connecting", "open", "sleeping"
    reconnect_delay,        \* self._reconnect_delay, in seconds
    failed,                 \* connection attempts that failed since the last connect
    feed_err                \* the latest failure of the feed since the last connect

feedVars == <<ws, subscribed, frame, conn, reconnect_delay, failed, feed_err>>

VARIABLES
    \* ---- settings and the POST /config request in progress
    settings_symbol,        \* settings.symbol
    settings_spread_bps,    \* settings.spread_bps
    cfg_pc,                 \* where update_config is suspended ("idle": no request)
    cfg_req,                \* the ConfigUpdate body of the latest request
    cfg_was_running,        \* was_running
    cfg_resp,               \* HTTP status (and error detail) of the latest response
    cfg_n                   \* requests answered so far (bounds the behaviours)

configVars == <<settings_symbol, settings_spread_bps, cfg_pc, cfg_req,
                cfg_was_running, cfg_resp, cfg_n>>

VARIABLES
    \* ---- a call of QuoteGenerator.generate
    quote_in,               \* the keyword arguments of the call
    quote_pc,               \* "called", "returned", or the exception raised
    quote_out               \* the Quote returned: <<>> or <<quote>>

quoteVars == <<quote_in, quote_pc, quote_out>>

VARIABLES
    \* ---- the quantity rounding of a call of _place_order
    po_size,                \* size, in tenths of the symbol's quantity tick
    po_qty                  \* floored_qty, in quantity ticks (0: no call yet)

roundVars == <<po_size, po_qty>>

VARIABLE
    \* ---- a call of one of the engine's REST helpers
    rest_call               \* the helper, what the exchange answered, and the outcome

\* all that the engine's own actions never write
otherVars == <<uptimeVars, bookVars, feedVars, configVars, quoteVars, roundVars, rest_call>>

vars == <<engineVars, tickVars, uptimeVars, bookVars, feedVars, configVars,
         quoteVars, roundVars, rest_call>>

\* pcs at which a task is inside _tick
TickPcs == {"flatten", "ca_query", "ca_cancel",
            "buy_sent", "buy_resp", "sell_sent", "sell_resp"}
\* pcs at which a task is inside the error branch's _cancel_all_orders
ErrPcs == {"eca_query", "eca_cancel"}
TaskPcs == {"unborn", "new", "sleep", "done"} \cup TickPcs \cup ErrPcs

Live(t) == tpc[t] \notin {"unborn", "done"}

Min(S) == CHOOSE x \in S : \A y \in S : x <= y

open_bids == {o \in active_orders : placed[o] = "buy"}
open_asks == {o \in active_orders : placed[o] = "sell"}

HasEitherSide(orders) == orders # {}

\* lines 297-301: the shadow map `orders' holds an open bid and an open ask
HasBothSides(orders) ==
    /\ \E o \in orders : placed[o] = "buy"
    /\ \E o \in orders : placed[o] = "sell"

EngineInit ==
    /\ status = "stopped"
    /\ consecutive_failures = 0
    /\ active_orders = {}
    /\ task = NoTask
    /\ lock = FALSE
    /\ tpc = [t \in Tasks |-> "unborn"]
    /\ tcancel = [t \in Tasks |-> FALSE]
    /\ texch = [t \in Tasks |-> {}]
    /\ tord = [t \in Tasks |-> 0]
    /\ stop_pc = "idle" /\ stop_exch = {} /\ stop_ok = TRUE
    /\ kill_pc = "idle" /\ kill_exch = {} /\ kill_ok = TRUE /\ kill_task = NoTask
    /\ placed = <<>>
    /\ resting = {}

(***************************************************************************)
(* UptimeTracker.  Time is in whole seconds; spreads are in whole bps.     *)
(***************************************************************************)
\* _get_current_hour: the start of the clock hour t lies in
HourOf(t) == t - (t % HourSeconds)

\* HourlyRecord(hour_start=h), counters at their defaults
NewRecord(h) ==
    [hour_start |-> h,
     maker_active_seconds |-> 0,
     mm_active_seconds |-> 0,
     total_elapsed_seconds |-> 0]

\* __init__ at clock time t0
UptimeInit(t0) ==
    /\ now = t0
    /\ last_tick = t0
    /\ current_hour = HourOf(t0)
    /\ current_record = NewRecord(HourOf(t0))
    /\ history = <<>>
    /\ is_active = FALSE
    /\ nticks = 0

\* a tick without line 119
ElapsedUncapped(t) == t - last_tick

\* tick, lines 115-119: the time since the last tick, capped
Elapsed(t) ==
    IF t - last_tick < ElapsedCap THEN t - last_tick ELSE ElapsedCap

\* a deque without maxlen
ArchiveUnbounded(h, r) == Append(h, r)

\* deque(maxlen=24).append: a full deque drops its oldest element
Archive(h, r) ==
    IF Len(h) = HistoryMaxLen THEN Append(Tail(h), r) ELSE Append(h, r)

\* lines 128-135 with the comparison of line 132 made strict
CreditStrictBoundary(r, elapsed, has_both_sides, spread_bps) ==
    [r EXCEPT
       !.total_elapsed_seconds = @ + elapsed,
       !.maker_active_seconds =
           IF has_both_sides /\ spread_bps < MAKER_MAX_SPREAD_BPS THEN @ + elapsed ELSE @,
       !.mm_active_seconds =
           IF has_both_sides /\ ~(spread_bps < MAKER_MAX_SPREAD_BPS) THEN @ + elapsed ELSE @]

\* tick, lines 128-135: the counters of the current record after this tick
Credit(r, elapsed, has_both_sides, spread_bps) ==
    [r EXCEPT
       !.total_elapsed_seconds = @ + elapsed,
       !.maker_active_seconds =
           IF has_both_sides /\ spread_bps <= MAKER_MAX_SPREAD_BPS THEN @ + elapsed ELSE @,
       !.mm_active_seconds =
           IF has_both_sides /\ ~(spread_bps <= MAKER_MAX_SPREAD_BPS) THEN @ + elapsed ELSE @]

\* a tick that updates the counters (lines 128-135) before it rolls over
UptimeTickCreditFirst(dt, has_both_sides, spread_bps) ==
    LET t == now + dt
        elapsed == Elapsed(t)
        hour == HourOf(t)
        rolled == hour # current_hour
        credited == Credit(current_record, elapsed, has_both_sides, spread_bps)
    IN  /\ now' = t
        /\ last_tick' = t
        /\ history' = IF rolled THEN Archive(history, credited) ELSE history
        /\ current_hour' = hour
        /\ current_record' = IF rolled THEN NewRecord(hour) ELSE credited
        /\ is_active' = has_both_sides
        /\ UNCHANGED <<engineVars, tickVars>>

\* tick(has_both_sides, spread_bps), called when the clock has moved by dt since
\* its last reading.  Lines 123-126 and _rollover: a tick in another clock hour
\* archives the current record and opens a new one before the counters are updated.
UptimeTickBody(dt, has_both_sides, spread_bps) ==
    LET t == now + dt
        elapsed == Elapsed(t)
        hour == HourOf(t)
        rolled == hour # current_hour
    IN  /\ now' = t
        /\ last_tick' = t
        /\ history' = IF rolled THEN Archive(history, current_record) ELSE history
        /\ current_hour' = hour
        /\ current_record' =
              Credit(IF rolled THEN NewRecord(hour) ELSE current_record,
                     elapsed, has_both_sides, spread_bps)
        /\ is_active' = has_both_sides

\* a call of tick() from outside the engine
UptimeTick(dt, has_both_sides, spread_bps) ==
    /\ UptimeTickBody(dt, has_both_sides, spread_bps)
    /\ UNCHANGED <<engineVars, tickVars>>

\* reset(), called when the clock has moved by dt since its last reading
UptimeReset(dt) ==
    LET t == now + dt
    IN  /\ now' = t
        /\ last_tick' = t
        /\ current_hour' = HourOf(t)
        /\ current_record' = NewRecord(HourOf(t))
        /\ history' = <<>>
        /\ is_active' = FALSE
        /\ UNCHANGED <<engineVars, tickVars>>

(***************************************************************************)
(* The exchange, as the engine's REST calls see it.  A call takes effect   *)
(* at the exchange at one instant; `ok' is whether the call succeeded.     *)
(***************************************************************************)
\* GET /api/query_open_orders: the orders resting now, or [] when the call fails
QueryOpenOrders(ok) == IF ok THEN resting ELSE {}

\* POST /api/cancel_order: an accepted cancel takes the order off the book (a cancel
\* of an order that is no longer there is answered 404/422, which counts as success);
\* a failed call leaves the book as it was
CancelOrderById(id, ok) == IF ok THEN resting \ {id} ELSE resting

(***************************************************************************)
(* TradingEngine._main_loop and _tick, one task t.                         *)
(***************************************************************************)
\* line 193: the tick returned; line 213: the loop sleeps
TickReturns(t) ==
    /\ consecutive_failures' = 0
    /\ tpc' = [tpc EXCEPT ![t] = "sleep"]
    /\ UNCHANGED status

\* lines 227, 239 and 296-303: the tick hands the tracker its two arguments, and
\* the tracker ticks (the wall clock stands still while the engine is looked at);
\* the quote of line 234 ends with the tick
TickReports(t, has_both_sides, spread_bps) ==
    /\ uptime_args' = <<[has_both_sides |-> has_both_sides, spread_bps |-> spread_bps]>>
    /\ tquote' = [tquote EXCEPT ![t] = {}]
    /\ UptimeTickBody(0, has_both_sides, spread_bps)
    /\ UNCHANGED nticks

TickRaisesUncounted(t) ==
    /\ tpc' = [tpc EXCEPT ![t] = "sleep"]
    /\ UNCHANGED <<status, consecutive_failures>>

\* lines 196-213: the tick raised
TickRaises(t) ==
    /\ consecutive_failures' = consecutive_failures + 1
    /\ IF consecutive_failures + 1 >= max_consecutive_failures
       THEN /\ status' = "error"
            /\ tpc' = [tpc EXCEPT ![t] = "eca_query"]
       ELSE /\ tpc' = [tpc EXCEPT ![t] = "sleep"]
            /\ UNCHANGED status

\* line 190 and 215-221: the task is resumed at the head of the loop (it was just
\* created, or its sleep ended); it leaves the loop, or enters a tick and suspends
\* in the position query of _check_and_close_positions (auto_close_fills is on)
LoopHead(t) ==
    /\ tpc[t] \in {"new", "sleep"}
    /\ ~tcancel[t]
    /\ tpc' = [tpc EXCEPT ![t] = IF status = "running" THEN "flatten" ELSE "done"]
    /\ UNCHANGED <<status, consecutive_failures, active_orders, task, lock,
                   tcancel, texch, tord, stop_pc, stop_exch, stop_ok,
                   kill_pc, kill_exch, kill_ok, kill_task, placed, resting>>
    /\ UNCHANGED <<tickVars, otherVars>>

\* lines 223-240: no mid price, or a quote beyond the deviation limit: the tick
\* reports an inactive tick and returns
TickInactive(t) ==
    /\ tpc[t] = "flatten"
    /\ ~tcancel[t]
    /\ TickReturns(t)
    /\ TickReports(t, FALSE, 0)
    /\ UNCHANGED <<active_orders, task, lock,
                   tcancel, texch, tord, stop_pc, stop_exch, stop_ok,
                   kill_pc, kill_exch, kill_ok, kill_task, placed, resting>>
    /\ UNCHANGED <<bookVars, feedVars, configVars, quoteVars, roundVars, rest_call>>

\* lines 242-303 up to the first await: need_refresh is what the proximity, drift and
\* staleness checks of the open shadow orders give (it can be true only when there
\* is an open order to check)
TickReconcile(t, need_refresh) ==
    /\ tpc[t] = "flatten"
    /\ ~tcancel[t]
    /\ need_refresh => active_orders # {}
    /\ LET has_both_sides == open_bids # {} /\ open_asks # {}
       IN  IF need_refresh \/ ~has_both_sides
           THEN /\ tpc' = [tpc EXCEPT ![t] =
                              IF open_bids # {} \/ open_asks # {}
                              THEN "ca_query" ELSE "buy_sent"]
                /\ tquote' = [tquote EXCEPT ![t] = {settings_spread_bps}]
                /\ UNCHANGED <<status, consecutive_failures, uptime_args, uptimeVars>>
           ELSE /\ TickReturns(t)
                /\ TickReports(t, TRUE, settings_spread_bps)
    /\ UNCHANGED <<active_orders, task, lock,
                   tcancel, texch, tord, stop_pc, stop_exch, stop_ok,
                   kill_pc, kill_exch, kill_ok, kill_task, placed, resting>>
    /\ UNCHANGED <<bookVars, feedVars, configVars, quoteVars, roundVars, rest_call>>

\* where a task goes on when its _cancel_all_orders has returned: to the first
\* placement (line 293), or out of the loop (line 211)
AfterCancelAll(t) == IF tpc[t] \in ErrPcs THEN "done" ELSE "buy_sent"

TaskCancelAllQueryKeepsMap(t, ok) ==
    /\ tpc[t] \in {"ca_query", "eca_query"}
    /\ ~tcancel[t]
    /\ LET exchange_orders == QueryOpenOrders(ok)
       IN  IF exchange_orders = {}
           THEN /\ active_orders' = IF ok THEN {} ELSE active_orders
                /\ tpc' = [tpc EXCEPT ![t] = AfterCancelAll(t)]
                /\ UNCHANGED texch
           ELSE /\ texch' = [texch EXCEPT ![t] = exchange_orders]
                /\ tpc' = [tpc EXCEPT ![t] =
                              IF tpc[t] = "ca_query" THEN "ca_cancel" ELSE "eca_cancel"]
                /\ UNCHANGED active_orders
    /\ UNCHANGED <<status, consecutive_failures, task, lock,
                   tcancel, tord, stop_pc, stop_exch, stop_ok,
                   kill_pc, kill_exch, kill_ok, kill_task, placed, resting>>
    /\ UNCHANGED <<tickVars, otherVars>>

\* lines 459-474 and 490-492 in a task: the answer to the open-orders query
TaskCancelAllQuery(t, ok) ==
    /\ tpc[t] \in {"ca_query", "eca_query"}
    /\ ~tcancel[t]
    /\ LET exchange_orders == QueryOpenOrders(ok)
       IN  IF exchange_orders = {}
           THEN /\ active_orders' = {}
                /\ tpc' = [tpc EXCEPT ![t] = AfterCancelAll(t)]
                /\ UNCHANGED texch
           ELSE /\ texch' = [texch EXCEPT ![t] = exchange_orders]
                /\ tpc' = [tpc EXCEPT ![t] =
                              IF tpc[t] = "ca_query" THEN "ca_cancel" ELSE "eca_cancel"]
                /\ UNCHANGED active_orders
    /\ UNCHANGED <<status, consecutive_failures, task, lock,
                   tcancel, tord, stop_pc, stop_exch, stop_ok,
                   kill_pc, kill_exch, kill_ok, kill_task, placed, resting>>
    /\ UNCHANGED <<tickVars, otherVars>>

\* lines 476-492 in a task: the answer to one cancel request
TaskCancelAllCancel(t, ok) ==
    /\ tpc[t] \in {"ca_cancel", "eca_cancel"}
    /\ ~tcancel[t]
    /\ LET id == Min(texch[t])
           rest == texch[t] \ {id}
       IN  /\ resting' = CancelOrderById(id, ok)
           /\ texch' = [texch EXCEPT ![t] = rest]
           /\ IF rest = {}
              THEN /\ active_orders' = {}
                   /\ tpc' = [tpc EXCEPT ![t] = AfterCancelAll(t)]
              ELSE UNCHANGED <<active_orders, tpc>>
    /\ UNCHANGED <<status, consecutive_failures, task, lock,
                   tcancel, tord, stop_pc, stop_exch, stop_ok,
                   kill_pc, kill_exch, kill_ok, kill_task, placed>>
    /\ UNCHANGED <<tickVars, otherVars>>

SideAt(pc) == IF pc \in {"buy_sent", "buy_resp"} THEN "buy" ELSE "sell"

\* lines 386-391: the exchange accepts the placement; the order rests from now on,
\* and the response is on its way to the task
ExchangeAccepts(t) ==
    /\ tpc[t] \in {"buy_sent", "sell_sent"}
    /\ ~tcancel[t]
    /\ Len(placed) < MaxOrders
    /\ placed' = Append(placed, SideAt(tpc[t]))
    /\ resting' = resting \cup {Len(placed) + 1}
    /\ tord' = [tord EXCEPT ![t] = Len(placed) + 1]
    /\ tpc' = [tpc EXCEPT ![t] = IF tpc[t] = "buy_sent" THEN "buy_resp" ELSE "sell_resp"]
    /\ UNCHANGED <<status, consecutive_failures, active_orders, task, lock,
                   tcancel, texch, stop_pc, stop_exch, stop_ok,
                   kill_pc, kill_exch, kill_ok, kill_task>>
    /\ UNCHANGED <<tickVars, otherVars>>

\* lines 392-403: the response arrives; the order enters the shadow map; after the
\* bid the ask is sent (line 294), after the ask the tick ends (lines 296-316)
PlaceOrderReturns(t) ==
    /\ tpc[t] \in {"buy_resp", "sell_resp"}
    /\ ~tcancel[t]
    /\ active_orders' = active_orders \cup {tord[t]}
    /\ tord' = [tord EXCEPT ![t] = 0]
    /\ IF tpc[t] = "buy_resp"
       THEN /\ tpc' = [tpc EXCEPT ![t] = "sell_sent"]
            /\ UNCHANGED <<status, consecutive_failures, tickVars, uptimeVars>>
       ELSE /\ TickReturns(t)
            /\ TickReports(t, HasBothSides(active_orders \cup {tord[t]}),
                            settings_spread_bps)
    /\ UNCHANGED <<task, lock,
                   tcancel, texch, stop_pc, stop_exch, stop_ok,
                   kill_pc, kill_exch, kill_ok, kill_task, placed, resting>>
    /\ UNCHANGED <<bookVars, feedVars, configVars, quoteVars, roundVars, rest_call>>

\* lines 405-411: HTTP 400 with "qty" in the body: no order, no id, no exception
PlaceOrderRejected(t) ==
    /\ tpc[t] \in {"buy_sent", "sell_sent"}
    /\ ~tcancel[t]
    /\ IF tpc[t] = "buy_sent"
       THEN /\ tpc' = [tpc EXCEPT ![t] = "sell_sent"]
            /\ UNCHANGED <<status, consecutive_failures, tickVars, uptimeVars>>
       ELSE /\ TickReturns(t)
            /\ TickReports(t, HasBothSides(active_orders), settings_spread_bps)
    /\ UNCHANGED <<active_orders, task, lock,
                   tcancel, texch, tord, stop_pc, stop_exch, stop_ok,
                   kill_pc, kill_exch, kill_ok, kill_task, placed, resting>>
    /\ UNCHANGED <<bookVars, feedVars, configVars, quoteVars, roundVars, rest_call>>

\* lines 412-417: any other failure of the placement: no order, the tick raises
PlaceOrderRaises(t) ==
    /\ tpc[t] \in {"buy_sent", "sell_sent"}
    /\ ~tcancel[t]
    /\ TickRaises(t)
    /\ tquote' = [tquote EXCEPT ![t] = {}]
    /\ UNCHANGED <<active_orders, task, lock,
                   tcancel, texch, tord, stop_pc, stop_exch, stop_ok,
                   kill_pc, kill_exch, kill_ok, kill_task, placed, resting>>
    /\ UNCHANGED <<uptime_args, otherVars>>

\* lines 405-417: the exchange answers the placement with an error status; qty_at
\* is the place of the first "qty" (in any case of letters) in the response body,
\* 0 when there is none.  The handler looks for it in the first 200 characters
QtyAt == {0, 1, 198, 199, 201}
PlaceOrderFails(t, status_code, qty_at) ==
    IF status_code = 400 /\ qty_at >= 1 /\ qty_at + 2 <= 200
    THEN PlaceOrderRejected(t)
    ELSE PlaceOrderRaises(t)

\* lines 194-195, and a CancelledError that leaves _main_loop from lines 210 or 213:
\* a cancelled task gets CancelledError at the await it is suspended in (a task that
\* never ran gets it at once) and ends; a request the exchange has not answered is
\* dropped
TaskCancelled(t) ==
    /\ tcancel[t]
    /\ Live(t)
    /\ tpc' = [tpc EXCEPT ![t] = "done"]
    /\ tcancel' = [tcancel EXCEPT ![t] = FALSE]
    /\ texch' = [texch EXCEPT ![t] = {}]
    /\ tord' = [tord EXCEPT ![t] = 0]
    /\ tquote' = [tquote EXCEPT ![t] = {}]
    /\ UNCHANGED <<status, consecutive_failures, active_orders, task, lock,
                   stop_pc, stop_exch, stop_ok,
                   kill_pc, kill_exch, kill_ok, kill_task, placed, resting>>
    /\ UNCHANGED <<uptime_args, otherVars>>

(***************************************************************************)
(* TradingEngine.start, stop and kill.                                     *)
(***************************************************************************)
\* lines 110-119.  The body has no await, so a call runs in one piece once it has
\* the lock.  A new task is created ready to run; it has not run yet.
StartBody ==
    /\ ~lock
    /\ status # "running"
    /\ \E t \in Tasks :
          /\ tpc[t] = "unborn"
          /\ \A u \in Tasks : tpc[u] = "unborn" => t <= u
          /\ tpc' = [tpc EXCEPT ![t] = "new"]
          /\ task' = t
    /\ status' = "running"
    /\ consecutive_failures' = 0
    /\ UNCHANGED <<active_orders, lock, tcancel, texch, tord,
                   stop_pc, stop_exch, stop_ok,
                   kill_pc, kill_exch, kill_ok, kill_task, placed, resting>>

\* POST /start on an engine that is not running (routes.py lines 65-83)
Start ==
    /\ StartBody
    /\ UNCHANGED <<tickVars, otherVars>>

\* lines 112-115: start on a running engine
StartAlreadyRunning ==
    /\ ~lock
    /\ status = "running"
    /\ UNCHANGED <<status, consecutive_failures, active_orders, task, lock,
                   tpc, tcancel, texch, tord, stop_pc, stop_exch, stop_ok,
                   kill_pc, kill_exch, kill_ok, kill_task, placed, resting>>
    /\ UNCHANGED <<tickVars, otherVars>>

\* lines 123-126: stop on a stopped engine
StopAlreadyStopped ==
    /\ ~lock
    /\ status = "stopped"
    /\ UNCHANGED <<status, consecutive_failures, active_orders, task, lock,
                   tpc, tcancel, texch, tord, stop_pc, stop_exch, stop_ok,
                   kill_pc, kill_exch, kill_ok, kill_task, placed, resting>>
    /\ UNCHANGED <<tickVars, otherVars>>

\* lines 123-134: stop takes the lock, sets the status, cancels the task and waits
\* for it; with no task to wait for it goes straight into _cancel_all_orders
StopBeginBody ==
    /\ ~lock
    /\ status # "stopped"
    /\ lock' = TRUE
    /\ status' = "stopped"
    /\ stop_ok' = TRUE
    /\ IF task # NoTask /\ tpc[task] # "done"
       THEN /\ tcancel' = [tcancel EXCEPT ![task] = TRUE]
            /\ stop_pc' = "wait_task"
       ELSE /\ stop_pc' = "ca_query"
            /\ UNCHANGED tcancel
    /\ UNCHANGED <<consecutive_failures, active_orders, task, tpc, texch, tord,
                   stop_exch, kill_pc, kill_exch, kill_ok, kill_task, placed, resting>>

\* POST /stop on an engine that is not stopped (routes.py lines 86-101)
StopBegin ==
    /\ StopBeginBody
    /\ UNCHANGED <<tickVars, otherVars>>

\* lines 130-134: the awaited task has ended (self._task cannot change meanwhile:
\* start needs the lock)
StopTaskEnded ==
    /\ stop_pc = "wait_task"
    /\ tpc[task] = "done"
    /\ stop_pc' = "ca_query"
    /\ UNCHANGED <<status, consecutive_failures, active_orders, task, lock,
                   tpc, tcancel, texch, tord, stop_exch, stop_ok,
                   kill_pc, kill_exch, kill_ok, kill_task, placed, resting>>
    /\ UNCHANGED <<tickVars, otherVars>>

\* lines 135-138: the rest of stop, once _cancel_all_orders has cleared the map
StopReturns ==
    /\ active_orders' = {}
    /\ consecutive_failures' = 0
    /\ stop_pc' = "idle"
    /\ lock' = FALSE

\* line 134, 459-474: the answer to stop's open-orders query
StopCancelAllQuery(ok) ==
    /\ stop_pc = "ca_query"
    /\ stop_ok' = (stop_ok /\ ok)
    /\ LET exchange_orders == QueryOpenOrders(ok)
       IN  IF exchange_orders = {}
           THEN StopReturns /\ UNCHANGED stop_exch
           ELSE /\ stop_exch' = exchange_orders
                /\ stop_pc' = "ca_cancel"
                /\ UNCHANGED <<active_orders, consecutive_failures, lock>>
    /\ UNCHANGED <<status, task, tpc, tcancel, texch, tord,
                   kill_pc, kill_exch, kill_ok, kill_task, placed, resting>>
    /\ UNCHANGED <<tickVars, otherVars>>

\* line 134, 476-492: the answer to one of stop's cancel requests
StopCancelAllCancel(ok) ==
    /\ stop_pc = "ca_cancel"
    /\ stop_ok' = (stop_ok /\ ok)
    /\ LET id == Min(stop_exch)
           rest == stop_exch \ {id}
       IN  /\ resting' = CancelOrderById(id, ok)
           /\ stop_exch' = rest
           /\ IF rest = {}
              THEN StopReturns
              ELSE UNCHANGED <<active_orders, consecutive_failures, stop_pc, lock>>
    /\ UNCHANGED <<status, task, tpc, tcancel, texch, tord,
                   kill_pc, kill_exch, kill_ok, kill_task, placed>>
    /\ UNCHANGED <<tickVars, otherVars>>

\* lines 142-144: kill sets the status, without the lock, and goes into
\* _cancel_all_orders
KillBegin ==
    /\ kill_pc = "idle"
    /\ status' = "killed"
    /\ kill_pc' = "ca_query"
    /\ kill_ok' = TRUE
    /\ UNCHANGED <<consecutive_failures, active_orders, task, lock,
                   tpc, tcancel, texch, tord, stop_pc, stop_exch, stop_ok,
                   kill_exch, kill_task, placed, resting>>
    /\ UNCHANGED <<tickVars, otherVars>>

\* lines 490-492 and 145-151: _cancel_all_orders clears the map and returns; kill
\* then cancels the task self._task names now and waits for it, or returns
KillAfterCancelAll ==
    /\ active_orders' = {}
    /\ IF task # NoTask /\ tpc[task] # "done"
       THEN /\ tcancel' = [tcancel EXCEPT ![task] = TRUE]
            /\ kill_task' = task
            /\ kill_pc' = "wait_task"
       ELSE /\ kill_pc' = "idle"
            /\ UNCHANGED <<tcancel, kill_task>>

\* line 144, 459-474: the answer to kill's open-orders query
KillCancelAllQuery(ok) ==
    /\ kill_pc = "ca_query"
    /\ kill_ok' = (kill_ok /\ ok)
    /\ LET exchange_orders == QueryOpenOrders(ok)
       IN  IF exchange_orders = {}
           THEN KillAfterCancelAll /\ UNCHANGED kill_exch
           ELSE /\ kill_exch' = exchange_orders
                /\ kill_pc' = "ca_cancel"
                /\ UNCHANGED <<active_orders, tcancel, kill_task>>
    /\ UNCHANGED <<status, consecutive_failures, task, lock, tpc, texch, tord,
                   stop_pc, stop_exch, stop_ok, placed, resting>>
    /\ UNCHANGED <<tickVars, otherVars>>

\* line 144, 476-492: the answer to one of kill's cancel requests
KillCancelAllCancel(ok) ==
    /\ kill_pc = "ca_cancel"
    /\ kill_ok' = (kill_ok /\ ok)
    /\ LET id == Min(kill_exch)
           rest == kill_exch \ {id}
       IN  /\ resting' = CancelOrderById(id, ok)
           /\ kill_exch' = rest
           /\ IF rest = {}
              THEN KillAfterCancelAll
              ELSE UNCHANGED <<active_orders, tcancel, kill_task, kill_pc>>
    /\ UNCHANGED <<status, consecutive_failures, task, lock, tpc, texch, tord,
                   stop_pc, stop_exch, stop_ok, placed>>
    /\ UNCHANGED <<tickVars, otherVars>>

\* lines 147-151: the task kill waits for has ended
KillTaskEnded ==
    /\ kill_pc = "wait_task"
    /\ tpc[kill_task] = "done"
    /\ kill_pc' = "idle"
    /\ kill_task' = NoTask
    /\ UNCHANGED <<status, consecutive_failures, active_orders, task, lock,
                   tpc, tcancel, texch, tord, stop_pc, stop_exch, stop_ok,
                   kill_exch, kill_ok, placed, resting>>
    /\ UNCHANGED <<tickVars, otherVars>>

(***************************************************************************)
(* The inputs of the uptime specifications.                                *)
(***************************************************************************)
\* clock times at which the tracker is constructed
StartTimes == {0, 3595}
\* moves of the wall clock between two readings: it can stand still, jump, and
\* (time.time() is not monotonic) step back
Steps == {-5, 0, 5, 10, 300, 3600}
\* the spread_bps argument: the default, the boundary, just above it, the
\* configured default
Spreads == {0, 5, 6, 50}

\* tick() with any arguments after any move of the clock
Tick ==
    /\ nticks < MaxTicks
    /\ \E dt \in Steps, has_both_sides \in BOOLEAN, spread_bps \in Spreads :
          /\ now + dt >= 0
          /\ UptimeTick(dt, has_both_sides, spread_bps)
    /\ nticks' = nticks + 1
    /\ UNCHANGED <<bookVars, feedVars, configVars, quoteVars, roundVars, rest_call>>

\* reset() after any move of the clock
Reset ==
    /\ nticks < MaxTicks
    /\ \E dt \in Steps : now + dt >= 0 /\ UptimeReset(dt)
    /\ nticks' = nticks + 1
    /\ UNCHANGED <<bookVars, feedVars, configVars, quoteVars, roundVars, rest_call>>

\* the engine quoting steadily through an hour: a tick every 5 or 10 seconds with
\* both sides resting at the boundary spread, the clock moving forward only
HourTick ==
    /\ \E dt \in {5, 10} :
          /\ now + dt <= MaxClock
          /\ UptimeTick(dt, TRUE, MAKER_MAX_SPREAD_BPS)
    /\ UNCHANGED nticks
    /\ UNCHANGED <<bookVars, feedVars, configVars, quoteVars, roundVars, rest_call>>

\* moves of the clock in SpecDay: half an hour, an hour
DaySteps == {1800, 3600}

\* the tracker over more than a day: a tick on every hour with both sides resting,
\* and up to MaxTicks ticks on a half hour with a side missing
DayTick ==
    /\ \E dt \in DaySteps :
          /\ now + dt <= MaxHours * HourSeconds
          /\ IF dt = HourSeconds
             THEN UptimeTick(dt, TRUE, MAKER_MAX_SPREAD_BPS) /\ UNCHANGED nticks
             ELSE /\ nticks < MaxTicks
                  /\ UptimeTick(dt, FALSE, MAKER_MAX_SPREAD_BPS)
                  /\ nticks' = nticks + 1
    /\ UNCHANGED <<bookVars, feedVars, configVars, quoteVars, roundVars, rest_call>>

(***************************************************************************)
(* Orderbook (market_data/orderbook.py).  A side is a dict from price to   *)
(* size, here a function on the prices it holds.  Prices are whole and     *)
(* even, so that the mid of two of them is whole.  An Optional value is    *)
(* the empty set (None) or the set of its one value.                       *)
(***************************************************************************)
Max(S) == CHOOSE x \in S : \A y \in S : y <= x

\* dict(): no level
EmptySide == [p \in {} |-> 0]

\* d[price] = size
Put(d, price, size) ==
    [p \in DOMAIN d \cup {price} |-> IF p = price THEN size ELSE d[p]]

\* d.pop(price, None)
Pop(d, price) == [p \in DOMAIN d \ {price} |-> d[p]]

\* lines 49-52: the loop `for price, size in levels: d[price] = size'
RECURSIVE Fill(_, _)
Fill(d, levels) ==
    IF levels = <<>> THEN d
    ELSE Fill(Put(d, Head(levels)[1], Head(levels)[2]), Tail(levels))

\* __init__; main.py builds the book for settings.symbol
BookInit ==
    /\ ob_symbol = "BTC-USD"
    /\ ob_bids = EmptySide
    /\ ob_asks = EmptySide

\* a snapshot that fills the new levels in without clearing the side first
SnapshotSideKeepsLevels(side, levels) == Fill(side, levels)

\* update_snapshot, lines 47-52, for one side: clear, then fill
SnapshotSide(side, levels) == Fill(EmptySide, levels)

\* update_snapshot.  The lock of line 46 is free whenever it is asked for (no holder
\* suspends inside it), and there is no await between lines 47 and 54: both sides
\* are replaced in one run.
update_snapshot(bids, asks) ==
    /\ ob_bids' = SnapshotSide(ob_bids, bids)
    /\ ob_asks' = SnapshotSide(ob_asks, asks)
    /\ UNCHANGED ob_symbol

\* update_delta, lines 60-63, on the dict of the side
DeltaSide(d, price, size) ==
    IF size <= 0 THEN Pop(d, price) ELSE Put(d, price, size)

\* update_delta: line 59 takes the bids for side "bid" and the asks for any other
update_delta(side, price, size) ==
    /\ IF side = "bid"
       THEN ob_bids' = DeltaSide(ob_bids, price, size) /\ UNCHANGED ob_asks
       ELSE ob_asks' = DeltaSide(ob_asks, price, size) /\ UNCHANGED ob_bids
    /\ UNCHANGED ob_symbol

\* best_bid, lines 67-71
best_bid == IF DOMAIN ob_bids = {} THEN {} ELSE {Max(DOMAIN ob_bids)}

\* best_ask, lines 74-78
best_ask == IF DOMAIN ob_asks = {} THEN {} ELSE {Min(DOMAIN ob_asks)}

\* mid_price, lines 81-87
mid_price ==
    IF best_bid = {} \/ best_ask = {} THEN {}
    ELSE {(bb + ba) \div 2 : bb \in best_bid, ba \in best_ask}

\* the property spread_bps, lines 90-97, in whole bps (rounded down)
book_spread_bps ==
    IF best_bid = {} \/ best_ask = {} \/ mid_price = {} \/ mid_price = {0} THEN {}
    ELSE {((ba - bb) * 10000) \div m : bb \in best_bid, ba \in best_ask, m \in mid_price}

(***************************************************************************)
(* MarketDataClient (market_data/ws_client.py) and the exchange's depth    *)
(* channel.                                                                *)
(***************************************************************************)
\* prices and sizes of the levels in depth frames and deltas
Prices == {100, 102}
Sizes == {1, 2}
\* the sizes of deltas: a removal (0, or below), an update
DeltaSizes == {-1, 0, 1, 2}
\* a level is a pair [price, size]; one side of a frame lists up to two levels
LevelLists ==
    {<<>>} \cup {<<l>> : l \in Prices \X Sizes}
           \cup {<<l, m>> : l \in Prices \X Sizes, m \in Prices \X Sizes}

\* no frame is on its way
NoFrame == [present |-> FALSE, symbol |-> "", bids |-> <<>>, asks |-> <<>>]

\* __init__ and start(): no socket yet, the loop about to connect
FeedInit ==
    /\ ws = FALSE
    /\ subscribed = {}
    /\ frame = NoFrame
    /\ conn = "connecting"
    /\ reconnect_delay = 1
    /\ failed = 0
    /\ feed_err = "none"

\* _connection_loop, lines 103-135: the socket is connected and the depth channel
\* of the book's current symbol subscribed
FeedConnects ==
    /\ conn = "connecting"
    /\ ws' = TRUE
    /\ reconnect_delay' = 1
    /\ subscribed' = {ob_symbol}
    /\ conn' = "open"
    /\ failed' = 0
    /\ feed_err' = "none"
    /\ UNCHANGED frame
    /\ UNCHANGED <<engineVars, tickVars, uptimeVars, bookVars, configVars, quoteVars, roundVars, rest_call>>

\* the exchange sends a depth frame of a subscribed symbol
FeedSends(bids, asks) ==
    /\ ~frame.present
    /\ \E s \in subscribed :
          frame' = [present |-> TRUE, symbol |-> s, bids |-> bids, asks |-> asks]
    /\ UNCHANGED <<ws, subscribed, conn, reconnect_delay, failed, feed_err>>
    /\ UNCHANGED <<engineVars, tickVars, uptimeVars, bookVars, configVars, quoteVars, roundVars, rest_call>>

\* _handle_message, lines 174-183: a depth_book frame becomes the book, whatever
\* symbol it names
HandleMessage ==
    /\ frame.present
    /\ update_snapshot(frame.bids, frame.asks)
    /\ frame' = NoFrame
    /\ UNCHANGED <<ws, subscribed, conn, reconnect_delay, failed, feed_err>>
    /\ UNCHANGED <<engineVars, tickVars, uptimeVars, configVars, quoteVars, roundVars, rest_call>>

FeedFailsEndsLoop(kind) ==
    /\ \/ kind = "connect" /\ conn = "connecting" /\ failed < MaxFails
       \/ kind = "closed" /\ conn = "open"
       \/ kind = "decode" /\ conn = "open" /\ frame.present
    /\ conn' = "ended"
    /\ failed' = IF kind = "connect" THEN failed + 1 ELSE failed
    /\ feed_err' = kind
    /\ subscribed' = {}
    /\ frame' = NoFrame
    /\ UNCHANGED <<ws, reconnect_delay>>
    /\ UNCHANGED <<engineVars, tickVars, uptimeVars, bookVars, configVars, quoteVars, roundVars, rest_call>>

\* lines 143-157: the loop's try block raised, and the loop goes to its reconnect
\* sleep.  "connect": websockets.connect failed (no route, InvalidStatusCode);
\* "closed": the open connection was closed; "decode": _handle_message raised on
\* the frame (lines 175-183: a level that is no number, a body that is no object).
\* The socket is gone, self._ws stays set.
FeedFails(kind) ==
    /\ \/ kind = "connect" /\ conn = "connecting" /\ failed < MaxFails
       \/ kind = "closed" /\ conn = "open"
       \/ kind = "decode" /\ conn = "open" /\ frame.present
    /\ conn' = "sleeping"
    /\ failed' = IF kind = "connect" THEN failed + 1 ELSE failed
    /\ feed_err' = kind
    /\ subscribed' = {}
    /\ frame' = NoFrame
    /\ UNCHANGED <<ws, reconnect_delay>>
    /\ UNCHANGED <<engineVars, tickVars, uptimeVars, bookVars, configVars, quoteVars, roundVars, rest_call>>

\* _handle_message, lines 165-169: the frame is no JSON; it is logged and dropped
HandleInvalidJson ==
    /\ conn = "open"
    /\ frame.present
    /\ frame' = NoFrame
    /\ feed_err' = "json"
    /\ UNCHANGED <<ws, subscribed, conn, reconnect_delay, failed>>
    /\ UNCHANGED <<engineVars, tickVars, uptimeVars, bookVars, configVars, quoteVars, roundVars, rest_call>>

ReconnectSleepEndsUncapped ==
    /\ conn = "sleeping"
    /\ reconnect_delay' = reconnect_delay * 2
    /\ conn' = "connecting"
    /\ UNCHANGED <<ws, subscribed, frame, failed, feed_err>>
    /\ UNCHANGED <<engineVars, tickVars, uptimeVars, bookVars, configVars, quoteVars, roundVars, rest_call>>

\* lines 157-161 and 101-103: the sleep of reconnect_delay seconds ends, the delay
\* doubles up to the ceiling, and the loop connects again
ReconnectSleepEnds ==
    /\ conn = "sleeping"
    /\ reconnect_delay' = Min({reconnect_delay * 2, max_reconnect_delay})
    /\ conn' = "connecting"
    /\ UNCHANGED <<ws, subscribed, frame, failed, feed_err>>
    /\ UNCHANGED <<engineVars, tickVars, uptimeVars, bookVars, configVars, quoteVars, roundVars, rest_call>>

\* a call of update_delta (the depth channel sends none: tests call it)
Delta(side, price, size) ==
    /\ update_delta(side, price, size)
    /\ UNCHANGED <<engineVars, tickVars, uptimeVars, feedVars, configVars, quoteVars, roundVars, rest_call>>


(***************************************************************************)
(* Runtime configuration (config.py) and POST /config (api/routes.py).     *)
(* Of the tunables a request can write, spread_bps stands for all: the     *)
(* others are written by the same lines in the same way.                   *)
(***************************************************************************)
SUPPORTED_SYMBOLS == {"BTC-USD", "ETH-USD", "XAU-USD", "XAG-USD"}

\* symbols a request names: the default, another supported one, an unsupported one
RequestSymbols == {"BTC-USD", "ETH-USD", "DOGE-USD"}
\* spreads a request names: the maker boundary, the default, and one beyond
\* max_spread_deviation_bps
SpreadValues == {5, 50, 250}
\* ConfigUpdate bodies: each field is left out ({}) or given
Requests ==
    [symbol : {{}} \cup {{s} : s \in RequestSymbols},
     spread_bps : {{}} \cup {{v} : v \in SpreadValues}]

\* no request is being handled
NoRequest == [symbol |-> {}, spread_bps |-> {}]

\* Settings(): the defaults of config.py
ConfigInit ==
    /\ settings_symbol = "BTC-USD"
    /\ settings_spread_bps = 50
    /\ cfg_pc = "idle"
    /\ cfg_req = NoRequest
    /\ cfg_was_running = FALSE
    /\ cfg_resp = "none"
    /\ cfg_n = 0

resetKeepsLevels(new_symbol) ==
    /\ ob_symbol' = new_symbol
    /\ UNCHANGED <<ob_bids, ob_asks>>

\* Orderbook.reset(new_symbol): drop both sides, set the active symbol
reset(new_symbol) ==
    /\ ob_symbol' = new_symbol
    /\ ob_bids' = EmptySide
    /\ ob_asks' = EmptySide

\* routes.py line 147
symbol_changed(req) == req.symbol # {} /\ req.symbol # {settings_symbol}

\* update_runtime_settings(symbol=..., spread_bps=...), config.py lines 113-120: each
\* field that is given is written; an unsupported symbol raises before any write
update_runtime_settings(symbol, spread) ==
    /\ symbol \subseteq SUPPORTED_SYMBOLS
    /\ settings_symbol' = IF symbol = {} THEN settings_symbol
                          ELSE CHOOSE s \in symbol : TRUE
    /\ settings_spread_bps' = IF spread = {} THEN settings_spread_bps
                              ELSE CHOOSE v \in spread : TRUE

\* the handler leaves `async with _config_lock' with a response; its locals end
Responds(code) ==
    /\ cfg_pc' = "idle"
    /\ cfg_req' = NoRequest
    /\ cfg_was_running' = FALSE
    /\ cfg_resp' = code
    /\ cfg_n' = cfg_n + 1

\* a request is taken up: _config_lock is free and the request is within the bound
ConfigEnters(req) ==
    /\ cfg_pc = "idle"
    /\ cfg_n < MaxRequests

\* a check of the symbol that lets every symbol through
ValidSymbolAny(req) == TRUE

\* routes.py line 151: the requested symbol is a supported one
ValidSymbol(req) == req.symbol \subseteq SUPPORTED_SYMBOLS

\* routes.py lines 146-155: a changed symbol that is not supported: HTTP 400
ConfigRejected(req) ==
    /\ ConfigEnters(req)
    /\ symbol_changed(req)
    /\ ~ValidSymbol(req)
    /\ Responds("400 Unsupported symbol")
    /\ UNCHANGED <<settings_symbol, settings_spread_bps>>
    /\ UNCHANGED <<engineVars, tickVars, uptimeVars, bookVars, feedVars, quoteVars, roundVars, rest_call>>

\* routes.py lines 189-200: no change of symbol: the tunables are written at once,
\* or HTTP 400 when the request gives none
ConfigParams(req) ==
    /\ ConfigEnters(req)
    /\ ~symbol_changed(req)
    /\ update_runtime_settings({}, req.spread_bps)
    /\ Responds(IF req.spread_bps = {} THEN "400 No valid fields to update" ELSE "200")
    /\ UNCHANGED <<engineVars, tickVars, uptimeVars, bookVars, feedVars, quoteVars, roundVars, rest_call>>

\* the write of the configuration and the response, with no delay and no restart
WriteAndRespond(req, was_running) ==
    /\ update_runtime_settings(req.symbol, req.spread_bps)
    /\ Responds("200")

\* routes.py lines 173-185: the write of the configuration, then the settle delay
\* when the engine is to be restarted, or the response
WriteAndSettle(req, was_running) ==
    /\ update_runtime_settings(req.symbol, req.spread_bps)
    /\ IF was_running
       THEN /\ cfg_pc' = "settle"
            /\ cfg_req' = req
            /\ cfg_was_running' = TRUE
            /\ UNCHANGED <<cfg_resp, cfg_n>>
       ELSE Responds("200")

\* routes.py line 166 to the first await of switch_symbol (ws_client.py lines
\* 66-77), or, with no socket, through to the settle delay: the tracker is reset;
\* then the unsubscribe is sent, or the book is reset and the configuration written
ResetAndSwitch(req, was_running) ==
    /\ UptimeReset(0)
    /\ IF ws
       THEN /\ cfg_pc' = "unsub_sent"
            /\ cfg_req' = req
            /\ cfg_was_running' = was_running
            /\ UNCHANGED <<settings_symbol, settings_spread_bps, cfg_resp, cfg_n>>
            /\ UNCHANGED bookVars
       ELSE /\ reset(CHOOSE s \in req.symbol : TRUE)
            /\ WriteAndSettle(req, was_running)
    /\ UNCHANGED <<nticks, feedVars, quoteVars, roundVars, rest_call>>

\* routes.py lines 146-162: a changed, supported symbol on a running engine: stop()
\* takes the engine's lock (free while the status is running) and suspends
ConfigStops(req) ==
    /\ ConfigEnters(req)
    /\ symbol_changed(req)
    /\ ValidSymbol(req)
    /\ status = "running"
    /\ StopBeginBody
    /\ cfg_pc' = "in_stop"
    /\ cfg_req' = req
    /\ cfg_was_running' = TRUE
    /\ UNCHANGED <<settings_symbol, settings_spread_bps, cfg_resp, cfg_n>>
    /\ UNCHANGED <<tickVars, uptimeVars, bookVars, feedVars, quoteVars, roundVars, rest_call>>

\* routes.py lines 146-170: a changed, supported symbol on an engine that is not
\* running: no stop
ConfigSwitchesStopped(req) ==
    /\ ConfigEnters(req)
    /\ symbol_changed(req)
    /\ ValidSymbol(req)
    /\ status # "running"
    /\ ResetAndSwitch(req, FALSE)

\* routes.py lines 162-170: stop() has returned
ConfigAfterStop ==
    /\ cfg_pc = "in_stop"
    /\ stop_pc = "idle"
    /\ ResetAndSwitch(cfg_req, TRUE)

\* ws_client.py lines 77-94: the unsubscribe was sent (ok) or the send raised; the
\* book is reset; the subscribe for the new symbol is sent
ConfigUnsubDone(ok) ==
    /\ cfg_pc = "unsub_sent"
    /\ subscribed' = IF ok THEN subscribed \ {ob_symbol} ELSE subscribed
    /\ reset(CHOOSE s \in cfg_req.symbol : TRUE)
    /\ cfg_pc' = "sub_sent"
    /\ UNCHANGED <<settings_symbol, settings_spread_bps, cfg_req, cfg_was_running,
                   cfg_resp, cfg_n>>
    /\ ok => conn = "open"
    /\ UNCHANGED <<ws, frame, conn, reconnect_delay, failed, feed_err>>
    /\ UNCHANGED <<engineVars, tickVars, uptimeVars, quoteVars, roundVars, rest_call>>

\* ws_client.py lines 94-97 and routes.py lines 173-185: the subscribe was sent (ok)
\* or the send raised; switch_symbol returns
ConfigSubDone(ok) ==
    /\ cfg_pc = "sub_sent"
    /\ subscribed' = IF ok THEN subscribed \cup {ob_symbol} ELSE subscribed
    /\ WriteAndSettle(cfg_req, cfg_was_running)
    /\ ok => conn = "open"
    /\ UNCHANGED <<ws, frame, conn, reconnect_delay, failed, feed_err>>
    /\ UNCHANGED <<engineVars, tickVars, uptimeVars, bookVars, quoteVars, roundVars, rest_call>>

\* routes.py lines 184-185: the settle delay is over and the engine's lock is free:
\* start() runs (it does nothing on an engine that runs already)
ConfigRestarts ==
    /\ cfg_pc = "settle"
    /\ ~lock
    /\ IF status = "running" THEN UNCHANGED engineVars ELSE StartBody
    /\ Responds("200")
    /\ UNCHANGED <<settings_symbol, settings_spread_bps>>
    /\ UNCHANGED <<tickVars, uptimeVars, bookVars, feedVars, quoteVars, roundVars, rest_call>>

(***************************************************************************)
(* QuoteGenerator (trading/quote.py).  A float is an exact fraction        *)
(* <<numerator, denominator>> in lowest terms, so the divisions of         *)
(* generate lose nothing.  A call is the record of its keyword arguments,  *)
(* an argument left out being None, the empty set.                         *)
(***************************************************************************)
Frac(n) == <<n, 1>>

Abs(n) == IF n < 0 THEN -n ELSE n

RECURSIVE Gcd(_, _)
Gcd(m, n) == IF n = 0 THEN m ELSE Gcd(n, m % n)

\* the fraction n/d, d # 0, in lowest terms with a positive denominator
Lowest(n, d) ==
    LET g == Gcd(Abs(n), Abs(d))
    IN  IF d > 0 THEN <<n \div g, d \div g>> ELSE <<(-n) \div g, (-d) \div g>>

FracNeg(a) == <<-a[1], a[2]>>

FracAdd(a, b) == Lowest(a[1] * b[2] + b[1] * a[2], a[2] * b[2])

FracSub(a, b) == FracAdd(a, FracNeg(b))

FracMul(a, b) == Lowest(a[1] * b[1], a[2] * b[2])

\* a / b, b # 0
FracDiv(a, b) == Lowest(a[1] * b[2], a[2] * b[1])

FracLt(a, b) == a[1] * b[2] < b[1] * a[2]

FracEq(a, b) == a[1] * b[2] = b[1] * a[2]

\* max(a, b)
FracMax(a, b) == IF FracLt(a, b) THEN b ELSE a

\* round(a, 4): to the nearest ten-thousandth, a tie to the even one
Round4(a) ==
    LET n == a[1] * 10000
        q == n \div a[2]
        r == n % a[2]
    IN  <<IF 2 * r > a[2] \/ (2 * r = a[2] /\ q % 2 = 1) THEN q + 1 ELSE q, 10000>>

\* the value of an Optional that is not None
Val(x) == CHOOSE v \in x : TRUE

Optional(S) == {{}} \cup {{v} : v \in S}

\* the calls of generate: the keywords it declares, and the per-side notionals
\* that the callers in tests/test_quote.py pass
Calls ==
    [mid_price : {0, 100, 50000},
     position_size : {-1, 0, 1},
     max_position : Optional({0, 2, 3}),
     skew_factor_bps : Optional({0, 4}),
     spread_bps : Optional({0, 5}),
     order_notional : Optional({0, 100}),
     qty_override : Optional({0, 3}),
     bid_notional : Optional({100}),
     ask_notional : Optional({100, 200})]

\* no call has been made
NoCall == [mid_price |-> 0]

\* the keyword parameters of generate
Parameters ==
    {"mid_price", "position_size", "max_position", "skew_factor_bps",
     "spread_bps", "order_notional", "qty_override"}

\* the keywords a call passes
Keywords(a) == {k \in DOMAIN a : k \in {"mid_price", "position_size"} \/ a[k] # {}}

\* the fields of Settings among the names generate reads
SettingsFields == {"spread_bps", "bid_notional", "ask_notional", "max_spread_deviation_bps"}

\* the settings that lines 93-95 and 112-113 read: those of the arguments left out
FallBacks(a) ==
    {k \in {"spread_bps", "max_position", "skew_factor_bps", "order_notional",
            "qty_override"} : a[k] = {}}

base_spread(a) == IF a.spread_bps # {} THEN Val(a.spread_bps) ELSE settings_spread_bps

Skew(position_size, max_pos, skew_factor) ==
    IF max_pos > 0 /\ position_size # 0
       THEN FracMul(FracDiv(Frac(position_size), Frac(max_pos)), Frac(skew_factor))
       ELSE Frac(0)

BidSpread(base, skew) == FracAdd(Frac(base), FracMax(Frac(0), skew))

AskSpread(base, skew) == FracAdd(Frac(base), FracMax(Frac(0), FracNeg(skew)))

BidPriceAbove(mid, bid_spread) ==
    FracMul(Frac(mid), FracAdd(Frac(1), FracDiv(bid_spread, Frac(10000))))

BidPrice(mid, bid_spread) ==
    FracMul(Frac(mid), FracSub(Frac(1), FracDiv(bid_spread, Frac(10000))))

AskPrice(mid, ask_spread) ==
    FracMul(Frac(mid), FracAdd(Frac(1), FracDiv(ask_spread, Frac(10000))))

\* the outcomes of a call
Returns(quote) == [pc |-> "returned", out |-> <<quote>>]

Raises(exception) == [pc |-> exception, out |-> <<>>]

\* Quote(...) of lines 124-134, size being the one size of both sides
Quote(a, size) ==
    LET skew == Skew(a.position_size, Val(a.max_position), Val(a.skew_factor_bps))
        bid_spread == BidSpread(base_spread(a), skew)
        ask_spread == AskSpread(base_spread(a), skew)
    IN  [bid_price |-> BidPrice(a.mid_price, bid_spread),
         bid_size |-> size,
         ask_price |-> AskPrice(a.mid_price, ask_spread),
         ask_size |-> size,
         mid_price |-> Frac(a.mid_price),
         spread_bps |-> FracAdd(bid_spread, ask_spread),
         bid_spread_bps |-> bid_spread,
         ask_spread_bps |-> ask_spread,
         skew_bps |-> Round4(skew)]

\* QuoteGenerator.generate.  A keyword it does not declare is a TypeError; a
\* setting that Settings does not have is an AttributeError, and order_size
\* (the last branch) is such a setting.  The warning of lines 136-142 changes
\* nothing.
generate(a) ==
    IF ~(Keywords(a) \subseteq Parameters) THEN Raises("TypeError")
    ELSE IF ~(FallBacks(a) \subseteq SettingsFields) THEN Raises("AttributeError")
    ELSE IF Val(a.qty_override) > 0
         THEN Returns(Quote(a, Frac(Val(a.qty_override))))
    ELSE IF Val(a.order_notional) > 0 /\ a.mid_price > 0
         THEN Returns(Quote(a, FracDiv(Frac(Val(a.order_notional)), Frac(a.mid_price))))
    ELSE Raises("AttributeError")

QuoteInit ==
    /\ quote_in = NoCall
    /\ quote_pc = "idle"
    /\ quote_out = <<>>

\* a caller calls quote_generator.generate(**a)
Generate(a) ==
    /\ quote_pc = "idle"
    /\ quote_in' = a
    /\ quote_pc' = generate(a).pc
    /\ quote_out' = generate(a).out
    /\ UNCHANGED <<engineVars, tickVars, uptimeVars, bookVars, feedVars, configVars,
                   roundVars, rest_call>>

(***************************************************************************)
(* The quantity rounding of TradingEngine._place_order.  A raw size is a   *)
(* whole number of tenths of the symbol's quantity tick and a rounded      *)
(* quantity a whole number of ticks, each standing for the double nearest  *)
(* to its decimal; the arithmetic is that of binary64.                     *)
(***************************************************************************)
\* line 328, size / tick: for these whole numbers k of ticks, and for no other size
\* of up to 40 ticks, the quotient of the two doubles is the double just below k
\* (0.0003 / 0.0001 = 2.9999999999999996), so that math.floor gives k - 1
ShortOfTick ==
    [symbol \in SUPPORTED_SYMBOLS |->
        CASE symbol = "BTC-USD" -> {3, 6, 12, 13, 21, 24, 26, 29, 31, 39}
          [] symbol = "ETH-USD" -> {}
          [] symbol = "XAU-USD" -> {29}
          [] symbol = "XAG-USD" -> {3, 6, 7, 12, 14, 19, 23, 24, 28, 29, 33, 38}]

\* lines 327-335: floor to the tick, round to its decimals (the product of the floor
\* and the tick is within one rounding of the decimal, which round() restores), and
\* bump a result below one tick to one tick
floored_qty(symbol, size) ==
    LET whole == size \div 10
        floor == IF size % 10 = 0 /\ whole \in ShortOfTick[symbol]
                 THEN whole - 1 ELSE whole
    IN  IF floor < 1 THEN 1 ELSE floor

\* _place_order is called with a size of up to 40 ticks
PlaceOrderRounds(size) ==
    /\ po_size' = size
    /\ po_qty' = floored_qty(settings_symbol, size)
    /\ UNCHANGED <<engineVars, tickVars, uptimeVars, bookVars, feedVars, configVars,
                   quoteVars, rest_call>>

(***************************************************************************)
(* _tick over the order book: lines 223-240 read the mid price and judge   *)
(* the quote before anything is sent.                                      *)
(***************************************************************************)
\* line 234 for the mid price mid: position_size is left at 0.0, so the skew is 0
\* whatever the position limit and the skew factor, and the half-spread is
\* settings.spread_bps; the sizes play no part in what follows
TickQuote(mid) ==
    Quote([mid_price |-> mid, position_size |-> 0, max_position |-> {0},
           skew_factor_bps |-> {0}, spread_bps |-> {}], Frac(0))

shadow_price_rounded(side, price) ==
    LET ticks == (price[1] * 100) \div price[2]
    IN  IF side = "buy" \/ (price[1] * 100) % price[2] = 0
        THEN Lowest(ticks, 100) ELSE Lowest(ticks + 1, 100)

\* _place_order, lines 395-400: the shadow order records the price the tick passed
\* (the quote's), not the rounded_price of lines 344-353 that is sent
shadow_price(side, price) == price

\* _tick, lines 253 and 268: abs(order.price - target) / mid * 10000
drift_bps(order_price, target, mid) ==
    LET diff == FracSub(order_price, target)
    IN  FracMul(FracDiv(<<Abs(diff[1]), diff[2]>>, mid), Frac(10000))

AlwaysWithin(q) == TRUE

\* Quote.bid_deviation_bps, ask_deviation_bps and is_within_max_deviation
is_within_max_deviation(q) ==
    LET bid_deviation_bps ==
            IF q.mid_price = Frac(0) THEN Frac(0)
            ELSE FracMul(FracDiv(FracSub(q.mid_price, q.bid_price), q.mid_price),
                         Frac(10000))
        ask_deviation_bps ==
            IF q.mid_price = Frac(0) THEN Frac(0)
            ELSE FracMul(FracDiv(FracSub(q.ask_price, q.mid_price), q.mid_price),
                         Frac(10000))
        max_dev == Frac(max_spread_deviation_bps)
    IN  ~FracLt(max_dev, bid_deviation_bps) /\ ~FracLt(max_dev, ask_deviation_bps)

BookTickBlind(t, need_refresh) == TickReconcile(t, need_refresh)

\* lines 223-303 up to the first await, the book being read: with no mid price, or
\* with a quote beyond the deviation limit, the tick is inactive; else it reconciles
BookTick(t, need_refresh) ==
    IF mid_price = {} \/ ~is_within_max_deviation(TickQuote(Val(mid_price)))
    THEN ~need_refresh /\ TickInactive(t)
    ELSE TickReconcile(t, need_refresh)

\* no tick has run
TickInit ==
    /\ tquote = [t \in Tasks |-> {}]
    /\ uptime_args = <<>>

\* the program after construction, the tracker apart
RestInit ==
    /\ EngineInit /\ TickInit /\ BookInit /\ FeedInit /\ ConfigInit /\ QuoteInit
    /\ po_size = 0 /\ po_qty = 0
    /\ rest_call = [helper |-> "none"]

Init == RestInit /\ UptimeInit(0)

InitUptime == RestInit /\ \E t0 \in StartTimes : UptimeInit(t0)

\* the tracker constructed ten seconds before the hour
InitHour == RestInit /\ UptimeInit(HourSeconds - ElapsedCap)

EngineNext ==
    \/ Start
    \/ StartAlreadyRunning
    \/ StopAlreadyStopped
    \/ StopBegin
    \/ StopTaskEnded
    \/ \E ok \in BOOLEAN : StopCancelAllQuery(ok)
    \/ \E ok \in BOOLEAN : StopCancelAllCancel(ok)
    \/ KillBegin
    \/ \E ok \in BOOLEAN : KillCancelAllQuery(ok)
    \/ \E ok \in BOOLEAN : KillCancelAllCancel(ok)
    \/ KillTaskEnded
    \/ \E t \in Tasks : LoopHead(t)
    \/ \E t \in Tasks : TickInactive(t)
    \/ \E t \in Tasks, need_refresh \in BOOLEAN : TickReconcile(t, need_refresh)
    \/ \E t \in Tasks, ok \in BOOLEAN : TaskCancelAllQuery(t, ok)
    \/ \E t \in Tasks, ok \in BOOLEAN : TaskCancelAllCancel(t, ok)
    \/ \E t \in Tasks : ExchangeAccepts(t)
    \/ \E t \in Tasks : PlaceOrderReturns(t)
    \/ \E t \in Tasks : PlaceOrderRejected(t)
    \/ \E t \in Tasks : PlaceOrderRaises(t)
    \/ \E t \in Tasks : TaskCancelled(t)

SpecEngine == Init /\ [][EngineNext]_vars

UptimeNext == Tick \/ Reset

SpecUptime == InitUptime /\ [][UptimeNext]_vars

DayNext == DayTick

SpecDay == Init /\ [][DayNext]_vars

HourNext == HourTick

SpecHour == InitHour /\ [][HourNext]_vars

\* the engine started and left to tick, with no stop and no kill: every behaviour
\* of SpecTicks is a behaviour of SpecEngine
TicksNext ==
    \/ Start
    \/ \E t \in Tasks : LoopHead(t)
    \/ \E t \in Tasks : TickInactive(t)
    \/ \E t \in Tasks, need_refresh \in BOOLEAN : TickReconcile(t, need_refresh)
    \/ \E t \in Tasks, ok \in BOOLEAN : TaskCancelAllQuery(t, ok)
    \/ \E t \in Tasks, ok \in BOOLEAN : TaskCancelAllCancel(t, ok)
    \/ \E t \in Tasks : ExchangeAccepts(t)
    \/ \E t \in Tasks : PlaceOrderReturns(t)
    \/ \E t \in Tasks, status_code \in {400, 500}, qty_at \in QtyAt :
          PlaceOrderFails(t, status_code, qty_at)

SpecTicks == Init /\ [][TicksNext]_vars

\* the order book under the depth channel and under deltas
BookNext ==
    \/ FeedConnects
    \/ \E bids \in LevelLists, asks \in LevelLists : FeedSends(bids, asks)
    \/ HandleMessage
    \/ \E side \in {"bid", "ask"}, price \in Prices, size \in DeltaSizes :
          Delta(side, price, size)

SpecBook == Init /\ [][BookNext]_vars

\* the engine started over POST /start and ticking, with POST /config requests; the
\* exchange answers every placement, so no tick raises
ConfigNext ==
    \/ Start
    \/ \E t \in Tasks : LoopHead(t)
    \/ \E t \in Tasks : TickInactive(t)
    \/ \E t \in Tasks, need_refresh \in BOOLEAN : TickReconcile(t, need_refresh)
    \/ \E t \in Tasks, ok \in BOOLEAN : TaskCancelAllQuery(t, ok)
    \/ \E t \in Tasks, ok \in BOOLEAN : TaskCancelAllCancel(t, ok)
    \/ \E t \in Tasks : ExchangeAccepts(t)
    \/ \E t \in Tasks : PlaceOrderReturns(t)
    \/ \E t \in Tasks : TaskCancelled(t)
    \/ StopTaskEnded
    \/ \E ok \in BOOLEAN : StopCancelAllQuery(ok)
    \/ \E ok \in BOOLEAN : StopCancelAllCancel(ok)
    \/ FeedConnects
    \/ \E req \in Requests : ConfigRejected(req)
    \/ \E req \in Requests : ConfigParams(req)
    \/ \E req \in Requests : ConfigStops(req)
    \/ \E req \in Requests : ConfigSwitchesStopped(req)
    \/ ConfigAfterStop
    \/ \E ok \in BOOLEAN : ConfigUnsubDone(ok)
    \/ \E ok \in BOOLEAN : ConfigSubDone(ok)
    \/ ConfigRestarts

SpecConfig == Init /\ [][ConfigNext]_vars

\* QuoteGenerator alone: one call of generate, its arguments drawn from Calls
QuoteNext == \E a \in Calls : Generate(a)

SpecQuote == Init /\ [][QuoteNext]_vars

\* the depth feed over an unreliable connection, beside an engine whose placements
\* fail.  A sleep ends and a connection attempt ends, one way or the other.
SpecFeed ==
    /\ Init
    /\ [][\/ Start
          \/ \E t \in Tasks : LoopHead(t) \/ TickInactive(t) \/ TickReconcile(t, FALSE)
          \/ \E t \in Tasks : PlaceOrderRaises(t) \/ TaskCancelAllQuery(t, TRUE)
          \/ FeedConnects
          \/ \E kind \in {"connect", "closed", "decode"} : FeedFails(kind)
          \/ ReconnectSleepEnds
          \/ \E bids \in {<<>>, <<<<100, 1>>>>}, asks \in {<<>>, <<<<102, 1>>>>} :
                FeedSends(bids, asks)
          \/ HandleMessage
          \/ HandleInvalidJson]_vars
    /\ WF_vars(ReconnectSleepEnds)
    /\ WF_vars(FeedConnects \/ FeedFails("connect"))

\* the tick loop over the order book that the depth feed fills, the spread being
\* set by POST /config
SpecMaker ==
    /\ Init
    /\ [][\/ Start
          \/ \E t \in Tasks : LoopHead(t)
          \/ \E t \in Tasks, need_refresh \in BOOLEAN : BookTick(t, need_refresh)
          \/ \E t \in Tasks : TaskCancelAllQuery(t, TRUE) \/ TaskCancelAllCancel(t, TRUE)
          \/ \E t \in Tasks : ExchangeAccepts(t) \/ PlaceOrderReturns(t)
          \/ \E t \in Tasks : PlaceOrderRejected(t)
          \/ FeedConnects
          \/ \E f \in {<<<<<<100, 1>>>>, <<<<102, 1>>>>>>, <<<<<<100, 1>>>>, <<>>>>,
                        <<<<<<100, 1>>>>, <<<<100, 1>>>>>>, <<<<<<102, 1>>>>, <<<<100, 1>>>>>>} :
                FeedSends(f[1], f[2])
          \/ HandleMessage
          \/ \E req \in Requests : req.symbol = {} /\ ConfigParams(req)]_vars

\* the quantity rounding alone, under the default symbol
SpecRound == Init /\ [][\E size \in 0..400 : PlaceOrderRounds(size)]_vars

(***************************************************************************)
(* The engine's REST helpers, each as a function of what the exchange      *)
(* answers: an HTTP status, or the exception the client raises.            *)
(***************************************************************************)
cancel_order_by_id_strict(response) ==
    [returns |-> {response = "200"}, raises |-> {}]

\* _cancel_order_by_id, lines 419-447: raise_for_status raises HTTPStatusError for
\* a status that is not 2xx; the two except clauses are tried in their order
cancel_order_by_id(response) ==
    LET exception == IF response \in {"200", "201"} THEN {}
                     ELSE IF response \in {"ConnectError", "ReadTimeout", "AuthError"}
                          THEN {response}
                          ELSE {"HTTPStatusError"}
    IN  IF exception = {} THEN [returns |-> {TRUE}, raises |-> {}]
        ELSE IF exception = {"HTTPStatusError"}
             THEN [returns |-> {response \in {"404", "422"}}, raises |-> {}]
             ELSE [returns |-> {FALSE}, raises |-> {}]

check_and_close_any_symbol(query, positions, close) ==
    LET found == {i \in DOMAIN positions : positions[i].qty # 0}
    IN  [orders |-> IF query = "200" /\ found # {} /\ close # "AuthError"
                    THEN <<[side |-> IF positions[Min(found)].qty > 0 THEN "sell" ELSE "buy",
                            qty |-> (Abs(positions[Min(found)].qty) + 5) \div 10,
                            order_type |-> "market", time_in_force |-> "ioc",
                            reduce_only |-> TRUE]>>
                    ELSE <<>>,
         raises |-> {}]

\* _check_and_close_positions and _place_market_close, lines 496-606.  query and
\* close are the answers to GET /api/query_positions and to the closing POST (a
\* status, or the exception raised; AuthError is a failure of the header signing,
\* before the request is sent); positions is the query's result, its quantities
\* in tenths of the symbol's quantity tick, none of them halfway between two ticks
\* (round(qty, decimals) of line 549 is then the nearest tick).  orders are the
\* closing orders sent, their qty in ticks
check_and_close_positions(query, positions, close) ==
    LET found == {i \in DOMAIN positions :
                     positions[i].symbol = settings_symbol /\ positions[i].qty # 0}
        qty == positions[Min(found)].qty
        close_side == IF qty > 0 THEN "sell" ELSE "buy"
        rounded_qty == (Abs(qty) + 5) \div 10
    IN  IF query # "200" \/ found = {} THEN [orders |-> <<>>, raises |-> {}]
        ELSE IF rounded_qty < 1 \/ close = "AuthError" THEN [orders |-> <<>>, raises |-> {}]
        ELSE [orders |-> <<[side |-> close_side, qty |-> rounded_qty,
                            order_type |-> "market", time_in_force |-> "ioc",
                            reduce_only |-> TRUE]>>,
              raises |-> {}]

\* switch_symbol under POST /config on a stopped engine, over a feed that connects,
\* fills the book, and loses its connection
SpecSwitch ==
    /\ Init
    /\ [][\/ FeedConnects
          \/ FeedSends(<<<<100, 1>>>>, <<<<102, 1>>>>)
          \/ HandleMessage
          \/ FeedFails("closed")
          \/ ReconnectSleepEnds
          \/ \E req \in Requests : req.spread_bps = {} /\ ConfigSwitchesStopped(req)
          \/ \E ok \in BOOLEAN : ConfigUnsubDone(ok)
          \/ \E ok \in BOOLEAN : ConfigSubDone(ok)]_vars

\* one call of a helper, with every answer of the exchange
SpecRest ==
    /\ Init
    /\ [][/\ rest_call.helper = "none"
          /\ \/ \E response \in {"200", "201", "400", "401", "404", "422", "429", "500",
                                  "503", "ConnectError", "ReadTimeout", "AuthError"} :
                   rest_call' = [helper |-> "_cancel_order_by_id", response |-> response,
                                 out |-> cancel_order_by_id(response)]
             \/ \E query \in {"200", "500", "ReadTimeout", "AuthError"},
                   close \in {"200", "400", "ReadTimeout", "AuthError"},
                   n \in 0..2 :
                   \E positions \in [1..n -> [symbol : {"BTC-USD", "ETH-USD"},
                                              qty : {-16, -10, -4, 0, 4, 10, 14, 20}]] :
                       rest_call' = [helper |-> "_check_and_close_positions",
                                     query |-> query, positions |-> positions,
                                     close |-> close,
                                     out |-> check_and_close_positions(query, positions,
                                                                       close)]
          /\ UNCHANGED <<engineVars, tickVars, uptimeVars, bookVars, feedVars,
                         configVars, quoteVars, roundVars>>]_vars

EngineTypeOK ==
    /\ status \in {"stopped", "running", "error", "killed"}
    /\ consecutive_failures \in Nat
    /\ active_orders \subseteq OrderIds
    /\ task \in Tasks \cup {NoTask}
    /\ \A t \in Tasks : tpc[t] \in TaskPcs
    /\ resting \subseteq 1..Len(placed)
    /\ active_orders \subseteq 1..Len(placed)
    /\ lock = (stop_pc # "idle")

(***************************************************************************)
(* The claims.                                                             *)
(***************************************************************************)
TickingTasks == {t \in Tasks : tpc[t] \in TickPcs}
\* the tasks whose loop is in a tick or may still begin one (a task in the
\* kill-switch's cancel-all only goes on to end)
TickLoopTasks == {t \in Tasks : tpc[t] \in TickPcs \cup {"new", "sleep"}}
CancelAllPcs == {"ca_query", "ca_cancel"}
resting_bids == {o \in resting : placed[o] = "buy"}
resting_asks == {o \in resting : placed[o] = "sell"}

\* the step is a tick of some task raising (only that increments the counter)
TickRaisesNow == consecutive_failures' = consecutive_failures + 1
\* the step is kill returning / stop returning
KillReturnsNow == kill_pc # "idle" /\ kill_pc' = "idle"
StopReturnsNow == stop_pc # "idle" /\ stop_pc' = "idle"

\* C1: when the max_consecutive_failures-th tick in a row raises, the status
\* becomes error and the task goes into cancel-all; from cancel-all a task only
\* goes on to end (cancel-all runs once, the loop ends); and while the status stays
\* error no tick begins and no order is placed.
C1_Step ==
    /\ (TickRaisesNow /\ consecutive_failures' >= max_consecutive_failures) =>
          /\ status' = "error"
          /\ \E t \in Tasks : tpc[t] \in TickPcs /\ tpc'[t] = "eca_query"
    /\ \A t \in Tasks : tpc[t] \in ErrPcs => tpc'[t] \in ErrPcs \cup {"done"}
    /\ (status = "error" /\ status' = "error") =>
          /\ \A t \in Tasks : tpc'[t] \in TickPcs => tpc[t] \in TickPcs
          /\ placed' = placed

C1_KillSwitchEndsTheLoop == [][C1_Step]_vars

\* C2: a tick that does not raise sets the counter to 0; the status becomes error
\* only in a step in which a tick raises and brings the counter to
\* max_consecutive_failures; and the counter is always between 0 and
\* max_consecutive_failures.
C2_Step ==
    /\ \A t \in Tasks :
          (tpc[t] \in TickPcs /\ tpc'[t] = "sleep" /\ ~TickRaisesNow) =>
              consecutive_failures' = 0
    /\ (status # "error" /\ status' = "error") =>
          TickRaisesNow /\ consecutive_failures' = max_consecutive_failures

C2_FailureCounter ==
    /\ [](consecutive_failures >= 0 /\ consecutive_failures <= max_consecutive_failures)
    /\ [][C2_Step]_vars

\* C3: while stop's or kill's cancel-all is in progress, no task is in a tick or
\* may still begin one: the tick task has been cancelled and has unwound.
C3_TaskEndsBeforeCancelAll ==
    (stop_pc \in CancelAllPcs \/ kill_pc \in CancelAllPcs) => TickLoopTasks = {}

\* C4: when stop or kill returns and every REST call it made succeeded, no order
\* rests on the exchange.
C4_Step ==
    /\ (StopReturnsNow /\ stop_ok') => resting' = {}
    /\ (KillReturnsNow /\ kill_ok') => resting' = {}

C4_NothingRestsAfterStopOrKill == [][C4_Step]_vars

\* C5: when kill returns, the status is killed and no tick task is running.
C5_Step == KillReturnsNow => (status' = "killed" /\ TickLoopTasks' = {})

C5_KillEndsKilled == [][C5_Step]_vars

\* C6: a stop on an engine that is not stopped goes through cancel-all once, and
\* when it returns the status is stopped, the tick task has ended and the shadow
\* map is empty; on a stopped engine no stop begins (nothing changes).
C6_Step ==
    /\ StopReturnsNow =>
          /\ status' = "stopped"
          /\ TickLoopTasks' = {}
          /\ active_orders' = {}
          /\ stop_pc \in CancelAllPcs
    /\ (stop_pc = "idle" /\ stop_pc' # "idle") =>
          status # "stopped" /\ stop_pc' \in {"wait_task", "ca_query"}
    /\ stop_pc = "wait_task" => stop_pc' \in {"wait_task", "ca_query"}
    /\ stop_pc = "ca_cancel" => stop_pc' \in {"ca_cancel", "idle"}

C6_StopEndsStopped == [][C6_Step]_vars

\* C7: at no time are two ticks in progress.
C7_OneTickAtATime == Cardinality(TickingTasks) <= 1

\* C8: the exchange holds at most one resting bid and at most one resting ask.
C8_OneBidOneAsk == Cardinality(resting_bids) <= 1 /\ Cardinality(resting_asks) <= 1

\* C9: every hourly record, current or archived, has
\* maker_active + mm_active <= total_elapsed <= 3600.
RecordWithinHour(r) ==
    /\ r.maker_active_seconds + r.mm_active_seconds <= r.total_elapsed_seconds
    /\ r.total_elapsed_seconds <= HourSeconds

C9_RecordWithinHour ==
    /\ RecordWithinHour(current_record)
    /\ \A i \in 1..Len(history) : RecordWithinHour(history[i])

\* C10: a tick adds at most 10 seconds to total_elapsed and at most 10 seconds to
\* one of the two active counters, whatever the move of the clock.  The counters a
\* tick adds to are those of the record that is current after it: the old current
\* record, or a new one when the tick crossed into another hour.
C10_Step ==
    LET before == IF current_hour' # current_hour
                  THEN NewRecord(current_hour') ELSE current_record
        d_total == current_record'.total_elapsed_seconds - before.total_elapsed_seconds
        d_maker == current_record'.maker_active_seconds - before.maker_active_seconds
        d_mm == current_record'.mm_active_seconds - before.mm_active_seconds
    IN  /\ d_total <= ElapsedCap
        /\ d_maker <= ElapsedCap
        /\ d_mm <= ElapsedCap
        /\ d_maker = 0 \/ d_mm = 0

\* the step is a call of tick()
TickNow ==
    \E dt \in Steps, has_both_sides \in BOOLEAN, spread_bps \in Spreads :
        UptimeTick(dt, has_both_sides, spread_bps)

C10_TickAddsAtMostCap == [][TickNow => C10_Step]_vars

\* C10's case: one tick, an hour after the tracker was built at time 0, has credited
\* the cap and no more
C10_Witness ==
    /\ nticks = 1
    /\ now = HourSeconds
    /\ last_tick = HourSeconds
    /\ Len(history) = 1
    /\ current_record.total_elapsed_seconds = ElapsedCap
    /\ current_record.maker_active_seconds = ElapsedCap

\* C11: a tick's elapsed time (the move of the clock since the last tick, at most
\* 10 s) is added to total_elapsed whatever the arguments; it is added to
\* maker_active only when both sides rest and spread_bps <= 5, to mm_active only
\* when both sides rest and spread_bps > 5, and to neither when a side is missing.
\* The counters are those of the record that is current after the tick.
C11_Bands(has_both_sides, spread_bps) ==
    LET before == IF current_hour' # current_hour
                  THEN NewRecord(current_hour') ELSE current_record
        e == IF now' - last_tick < 10 THEN now' - last_tick ELSE 10
        d_total == current_record'.total_elapsed_seconds - before.total_elapsed_seconds
        d_maker == current_record'.maker_active_seconds - before.maker_active_seconds
        d_mm == current_record'.mm_active_seconds - before.mm_active_seconds
    IN  /\ d_total = e
        /\ d_maker = IF has_both_sides /\ spread_bps <= 5 THEN e ELSE 0
        /\ d_mm = IF has_both_sides /\ spread_bps > 5 THEN e ELSE 0

C11_Step ==
    \A has_both_sides \in BOOLEAN, spread_bps \in Spreads :
        (\E dt \in Steps : UptimeTick(dt, has_both_sides, spread_bps))
            => C11_Bands(has_both_sides, spread_bps)

C11_OneBandOrNone == [][C11_Step]_vars

\* C11's case: three ticks in one hour, 5 s at the boundary spread, 10 s at a wider
\* spread and 10 s with a side missing
C11_Witness ==
    /\ nticks = 3
    /\ history = <<>>
    /\ current_record.maker_active_seconds = 5
    /\ current_record.mm_active_seconds = 10
    /\ current_record.total_elapsed_seconds = 25
    /\ ~is_active

\* the step is a call of tick() in SpecDay
DayTickNow ==
    \E dt \in DaySteps, has_both_sides \in BOOLEAN :
        UptimeTick(dt, has_both_sides, MAKER_MAX_SPREAD_BPS)

\* C12: a tick in a clock hour other than the current record's appends the current
\* record, with the counters it had before the tick, to the history (which grows
\* by one, or stays at 24 by dropping its oldest record), and makes a record with
\* the new hour start current, holding nothing but this tick's elapsed time.
C12_Step ==
    (DayTickNow /\ HourOf(now') # current_record.hour_start) =>
        /\ Len(history') = (IF Len(history) < 24 THEN Len(history) + 1 ELSE 24)
        /\ history'[Len(history')] = current_record
        /\ current_hour' = HourOf(now')
        /\ current_record'.hour_start = HourOf(now')
        /\ current_record'.total_elapsed_seconds <= 10
        /\ current_record'.maker_active_seconds + current_record'.mm_active_seconds
              <= current_record'.total_elapsed_seconds

C12_RolloverArchives == [][C12_Step]_vars

\* C12's case: the record of hour 0, with the 10 s of a half-hour tick, is archived
\* by the tick at 3600, and the record of hour 3600 is current
C12_Witness ==
    /\ now = 3600
    /\ Len(history) = 1
    /\ history[1] = [hour_start |-> 0, maker_active_seconds |-> 0,
                      mm_active_seconds |-> 0, total_elapsed_seconds |-> 10]
    /\ current_record.hour_start = 3600

\* C13: the history holds at most 24 records; a step leaves it as it is, or appends
\* one record to it, dropping the oldest one when it already held 24; the records
\* that stay are unchanged and in the same order.  (reset() empties the history.)
C13_Step ==
    \/ history' = history
    \/ history' = <<>>
    \/ /\ Len(history) < 24
       /\ Len(history') = Len(history) + 1
       /\ SubSeq(history', 1, Len(history)) = history
    \/ /\ Len(history) = 24
       /\ Len(history') = 24
       /\ SubSeq(history', 1, 23) = Tail(history)

C13_HistoryIsFifo == [](Len(history) <= 24) /\ [][C13_Step]_vars

\* C13's case: a 25th and a 26th record were archived; the records of hours 0 and
\* 3600 are gone, the 24 that stay are those of the hours 2 to 25
C13_Witness ==
    /\ Len(history) = 24
    /\ \A i \in 1..24 : history[i].hour_start = (i + 1) * 3600
    /\ current_record.hour_start = 26 * 3600

\* the tracker as reset() leaves it while the clock stands still
TrackerIsReset ==
    /\ history = <<>>
    /\ current_record = NewRecord(current_hour)
    /\ ~is_active

\* C14: a POST /config that changes the symbol while the engine runs goes through
\* these steps in this order: stop() of the engine (first of all, with nothing
\* else touched), the reset of the tracker once stop() has returned, the switch of
\* the book's symbol while the configured symbol is still the old one, the write
\* of the configuration once the book has the new symbol, the settle delay, and
\* start().  When the request is answered the configured symbol and the book's
\* symbol are the requested one, and the engine's status is running.
C14_Step ==
    LET requested == CHOOSE s \in cfg_req.symbol : TRUE
    IN  /\ (cfg_pc = "idle" /\ cfg_was_running') =>
              /\ cfg_pc' = "in_stop"
              /\ status = "running" /\ status' = "stopped" /\ stop_pc' # "idle"
              /\ UNCHANGED <<uptimeVars, bookVars, settings_symbol, settings_spread_bps>>
        /\ (cfg_was_running /\ cfg_pc = "in_stop" /\ cfg_pc' # "in_stop") =>
              /\ stop_pc = "idle"
              /\ TrackerIsReset'
              /\ cfg_pc' \in {"unsub_sent", "settle"}
        /\ (cfg_was_running /\ ob_symbol' # ob_symbol) =>
              /\ cfg_pc \in {"in_stop", "unsub_sent"}
              /\ settings_symbol = ob_symbol
              /\ ob_symbol' = requested
        /\ (cfg_was_running /\ settings_symbol' # settings_symbol) =>
              /\ ob_symbol' = requested
              /\ settings_symbol' = requested
              /\ cfg_pc' = "settle"
        /\ (cfg_was_running /\ cfg_pc' = "idle") =>
              /\ cfg_pc = "settle"
              /\ cfg_resp' = "200"
              /\ settings_symbol' = requested
              /\ ob_symbol' = requested
              /\ status' = "running"

C14_SymbolBarrier == [][C14_Step]_vars

\* C14's case: the engine had placed its two orders when the symbol was changed
\* over a connected socket; stop() cancelled them, the feed was switched, and the
\* request was answered with the engine running its second task on ETH-USD
C14_Witness ==
    /\ cfg_pc = "idle"
    /\ cfg_resp = "200"
    /\ settings_symbol = "ETH-USD"
    /\ ob_symbol = "ETH-USD"
    /\ subscribed = {"ETH-USD"}
    /\ status = "running"
    /\ task = 2
    /\ tpc[1] = "done"
    /\ Len(placed) = 2
    /\ resting = {}

\* the step takes up the request req
Handles(req) ==
    \/ ConfigRejected(req)
    \/ ConfigParams(req)
    \/ ConfigStops(req)
    \/ ConfigSwitchesStopped(req)

\* C15: a POST /config whose symbol is not a supported one is answered at once with
\* HTTP 400 "Unsupported symbol", and the step changes nothing else: the engine is
\* not stopped, the tracker is not reset, the book and the feed are not switched,
\* and neither the symbol nor any tunable of the request is written.
C15_Step ==
    \A req \in Requests :
        (Handles(req) /\ ~(req.symbol \subseteq SUPPORTED_SYMBOLS)) =>
            /\ cfg_pc' = "idle"
            /\ cfg_resp' = "400 Unsupported symbol"
            /\ UNCHANGED <<engineVars, tickVars, uptimeVars, bookVars, feedVars>>
            /\ UNCHANGED <<settings_symbol, settings_spread_bps>>

C15_UnsupportedSymbolRejected == [][C15_Step]_vars

\* C15's case: the engine runs with both orders resting and the tracker active,
\* and the only request so far was refused for its symbol
C15_Witness ==
    /\ cfg_n = 1
    /\ cfg_pc = "idle"
    /\ cfg_resp = "400 Unsupported symbol"
    /\ status = "running"
    /\ Cardinality(resting) = 2
    /\ is_active
    /\ settings_symbol = "BTC-USD"
    /\ settings_spread_bps = 50
    /\ ob_symbol = "BTC-USD"

\* task t's tick, which generated a quote, ends in this step with its report to
\* the tracker
ReportsNow(t) ==
    /\ tpc[t] \in TickPcs
    /\ tquote[t] # {}
    /\ tpc'[t] = "sleep"
    /\ consecutive_failures' = 0

\* C16: a tick sees one value of every tunable from its start to its end, also
\* when a POST /config that changes no symbol is applied while the tick waits for
\* the exchange: the spread_bps it hands to the tracker at its end is the
\* spread_bps its quote was generated with.
C16_Step ==
    \A t \in Tasks :
        ReportsNow(t) => uptime_args'[1].spread_bps \in tquote[t]

C16_TickSeesStableConfig == [][C16_Step]_vars

\* C17: whenever the book holds bids and asks, its best bid is below its best ask;
\* whenever a side is empty, the book has no mid price and no spread.
C17_UncrossedBook ==
    /\ (DOMAIN ob_bids # {} /\ DOMAIN ob_asks # {}) =>
          \A b \in best_bid, a \in best_ask : b < a
    /\ (DOMAIN ob_bids = {} \/ DOMAIN ob_asks = {}) =>
          (mid_price = {} /\ book_spread_bps = {})

\* the dict d holds the levels the list names and no other; a price named twice
\* has the size named last
ExactlyLevels(d, levels) ==
    /\ DOMAIN d = {levels[i][1] : i \in DOMAIN levels}
    /\ \A i \in DOMAIN levels :
          (\A j \in DOMAIN levels : j > i => levels[j][1] # levels[i][1])
              => d[levels[i][1]] = levels[i][2]

\* all levels of d but the one at price are in e as they are in d, and e has no
\* other level besides
OthersUnchanged(d, e, price) ==
    \A p \in (DOMAIN d \cup DOMAIN e) \ {price} :
        p \in DOMAIN d /\ p \in DOMAIN e /\ e[p] = d[p]

C18_Step ==
    /\ (frame.present /\ ~frame'.present) =>
          /\ ExactlyLevels(ob_bids', frame.bids)
          /\ ExactlyLevels(ob_asks', frame.asks)
    /\ \A price \in Prices, size \in DeltaSizes :
          /\ Delta("bid", price, size) =>
                /\ size > 0 => (price \in DOMAIN ob_bids' /\ ob_bids'[price] = size)
                /\ size = 0 => price \notin DOMAIN ob_bids'
                /\ OthersUnchanged(ob_bids, ob_bids', price)
                /\ ob_asks' = ob_asks
          /\ Delta("ask", price, size) =>
                /\ size > 0 => (price \in DOMAIN ob_asks' /\ ob_asks'[price] = size)
                /\ size = 0 => price \notin DOMAIN ob_asks'
                /\ OthersUnchanged(ob_asks, ob_asks', price)
                /\ ob_bids' = ob_bids

C18_Extrema ==
    /\ DOMAIN ob_bids # {} =>
          \E b \in best_bid : b \in DOMAIN ob_bids /\ \A p \in DOMAIN ob_bids : p <= b
    /\ DOMAIN ob_asks # {} =>
          \E a \in best_ask : a \in DOMAIN ob_asks /\ \A p \in DOMAIN ob_asks : a <= p

\* C18: the step that handles a depth frame leaves on each side exactly the levels
\* of the frame, both sides in the one step, so no state has one side of the new
\* book and one of the old; update_delta with a size above 0 leaves the level at
\* that price with that size, with size 0 leaves no level at that price, and
\* leaves every other level of both sides as it was; in every state best_bid is the
\* highest price of the bids and best_ask the lowest price of the asks.
C18_SnapshotDeltaExtrema == []C18_Extrema /\ [][C18_Step]_vars

\* C18's case: a frame with two bids and one ask was handled, then the ask at 102
\* was replaced by deltas with a smaller one at 100 while the next frame is under
\* way: two levels a side were compared
C18_Witness ==
    /\ frame.present
    /\ DOMAIN ob_bids = {100, 102}
    /\ ob_bids[100] = 1 /\ ob_bids[102] = 2
    /\ DOMAIN ob_asks = {100}
    /\ ob_asks[100] = 2
    /\ best_bid = {102}
    /\ best_ask = {100}

\* the skew of the call in quote_in is 0: by lines 98-101, there is no position, or
\* no positive position limit, or the skew factor is 0
SkewIsZero ==
    \/ quote_in.position_size = 0
    \/ Val(quote_in.max_position) <= 0
    \/ Val(quote_in.skew_factor_bps) = 0

\* C19: every quote that generate returns for a mid price above 0 and a spread above
\* 0 has its bid price below the mid and its ask price above it; and when the skew
\* is 0 the two prices are equally far from the mid.
C19_QuoteAroundMid ==
    quote_pc = "returned" =>
        LET q == quote_out[1]
            mid == Frac(quote_in.mid_price)
        IN  /\ (quote_in.mid_price > 0 /\ base_spread(quote_in) > 0) =>
                    FracLt(q.bid_price, mid) /\ FracLt(mid, q.ask_price)
            /\ SkewIsZero =>
                    FracEq(FracSub(mid, q.bid_price), FracSub(q.ask_price, mid))

\* C19's case: a flat quote at mid 100 with 5 bps a side: 99.95 and 100.05
C19_Witness ==
    /\ quote_pc = "returned"
    /\ quote_in.mid_price = 100
    /\ quote_in.spread_bps = {5}
    /\ quote_in.position_size = 0
    /\ FracEq(quote_out[1].bid_price, <<9995, 100>>)
    /\ FracEq(quote_out[1].ask_price, <<10005, 100>>)

\* C20: a call of generate that passes a bid notional and an ask notional at a mid
\* price above 0 returns a quote whose bid size is the bid notional divided by the
\* mid and whose ask size is the ask notional divided by the mid.
C20_PerSideSizes ==
    (/\ quote_pc # "idle"
     /\ quote_in.mid_price > 0
     /\ quote_in.bid_notional # {}
     /\ quote_in.ask_notional # {}) =>
        /\ quote_pc = "returned"
        /\ FracEq(quote_out[1].bid_size,
                  FracDiv(Frac(Val(quote_in.bid_notional)), Frac(quote_in.mid_price)))
        /\ FracEq(quote_out[1].ask_size,
                  FracDiv(Frac(Val(quote_in.ask_notional)), Frac(quote_in.mid_price)))

\* the two sizes of a returned quote are one number, whatever the call
C20_OneSize == quote_pc = "returned" => quote_out[1].bid_size = quote_out[1].ask_size

\* C21: the quantity _place_order sends is a whole number of quantity ticks and at
\* least one tick, is exactly one tick for a raw size below one tick, does not
\* exceed a raw size of one tick or more, and is returned unchanged when it is
\* rounded again.
C21_QtyRounding ==
    po_qty # 0 =>
        /\ po_qty \in Nat /\ po_qty >= 1
        /\ po_size < 10 => po_qty = 1
        /\ po_size >= 10 => 10 * po_qty <= po_size
        /\ floored_qty(settings_symbol, 10 * po_qty) = po_qty

\* the parts of C22 that are about one state: the delay is between 1 s and 60 s, is
\* 1 s before the first attempt and while a connection is open
C22_Range ==
    /\ reconnect_delay \in 1..max_reconnect_delay
    /\ (conn = "open" \/ (~ws /\ failed = 0)) => reconnect_delay = 1

\* the parts of C22 that are about one step: the end of a reconnect sleep doubles
\* the delay up to 60 s, a successful connect sets it back to 1 s, and nothing
\* else changes it
C22_Step ==
    /\ (conn = "sleeping" /\ conn' = "connecting") =>
           reconnect_delay' = Min({2 * reconnect_delay, max_reconnect_delay})
    /\ (conn = "connecting" /\ conn' = "open") => reconnect_delay' = 1
    /\ (conn = conn' \/ conn' = "sleeping") => reconnect_delay' = reconnect_delay

\* C22 as stated: the delay starts at 1 s, doubles after each reconnect sleep, never
\* exceeds 60 s, is 1 s after a successful connect, and the sleep that follows k
\* failed connection attempts in a row lasts min(2^k, 60) seconds.
C22_SleepIsTwoToTheFailures ==
    /\ C22_Range
    /\ conn = "sleeping" => reconnect_delay = Min({2 ^ failed, max_reconnect_delay})

\* C22, amended: the delay starts at 1 s, doubles after each reconnect sleep, never
\* exceeds 60 s and is set back to 1 s by every successful connect; the sleep that
\* follows k failed connection attempts in a row lasts min(2^k, 60) seconds when a
\* connection had been made before them (the sleep after the loss of that
\* connection lasting 1 s), and min(2^(k-1), 60) seconds when none had been made.
C22_Backoff ==
    /\ [](/\ C22_Range
          /\ conn = "sleeping" =>
                reconnect_delay =
                    Min({2 ^ (IF ws THEN failed ELSE failed - 1), max_reconnect_delay}))
    /\ [][C22_Step]_vars

\* C22's case: a connection was lost and six attempts in a row failed: the loop
\* sleeps 60 s, not 64 s
C22_Witness ==
    /\ ws
    /\ conn = "sleeping"
    /\ failed = 6
    /\ reconnect_delay = 60

\* a failure of the feed other than a frame that is no JSON
FeedFailed == feed_err \in {"connect", "closed", "decode"}

\* what C23 says of one step: a failure of the feed leaves the engine's status and
\* failure counter alone, a frame that is no JSON is dropped with the connection,
\* the subscription and the book kept, and a connect subscribes to the book's symbol
C23_Step ==
    /\ (feed_err' # feed_err /\ feed_err' # "none") =>
           UNCHANGED <<status, consecutive_failures>>
    /\ HandleInvalidJson =>
           conn' = "open" /\ UNCHANGED <<subscribed, bookVars, engineVars>>
    /\ (conn = "connecting" /\ conn' = "open") => subscribed' = {ob_symbol}

\* C23 as stated: every failure of the feed (a connection error, an invalid
\* handshake status, an error while decoding a frame) is followed by a reconnect
\* attempt.
C23_EveryFailureReconnects == (feed_err # "none") ~> (conn = "connecting")

\* C23, amended: no failure of the feed ends the loop or changes the engine's
\* failure counter; a frame that is no JSON is dropped and the connection kept; every
\* other failure is followed by a reconnect attempt, and a connect subscribes to the
\* order book's current symbol.
C23_FailuresAbsorbed ==
    /\ [](conn \in {"connecting", "open", "sleeping"})
    /\ FeedFailed ~> (conn = "connecting")
    /\ [][C23_Step]_vars

\* C23's case: the engine has counted three failed ticks, a frame that could not be
\* decoded closed the connection, and the loop connects again
C23_Witness ==
    /\ feed_err = "decode"
    /\ conn = "connecting"
    /\ consecutive_failures = 3

\* C24: a tick that finds no mid price (a side of the book is empty) tells the
\* tracker has_both_sides = false and returns: it waits for no answer to a place
\* or cancel request, and the shadow map, the orders the exchange accepted and the
\* orders that rest are what they were.
C24_Step ==
    \A t \in Tasks, need_refresh \in BOOLEAN :
        (BookTick(t, need_refresh) /\ mid_price = {}) =>
            /\ uptime_args' = <<[has_both_sides |-> FALSE, spread_bps |-> 0]>>
            /\ tpc'[t] = "sleep"
            /\ UNCHANGED <<active_orders, placed, resting, texch, tord>>

C24_NoMidNoAction == [][C24_Step]_vars

\* C24's case: both orders rest and are in the shadow map, the book has lost its
\* asks, and the tick that followed was reported inactive
C24_Witness ==
    /\ mid_price = {}
    /\ best_bid # {}
    /\ HasBothSides(active_orders)
    /\ resting = active_orders
    /\ uptime_args = <<[has_both_sides |-> FALSE, spread_bps |-> 0]>>
    /\ \E t \in Tasks : tpc[t] = "sleep"

\* a side of the quote q lies more than max_spread_deviation_bps from its mid price
\* (the mid price being positive)
BeyondDeviation(q) ==
    LET limit == FracMul(Frac(max_spread_deviation_bps), q.mid_price)
    IN  \/ FracLt(limit, FracMul(FracSub(q.mid_price, q.bid_price), Frac(10000)))
        \/ FracLt(limit, FracMul(FracSub(q.ask_price, q.mid_price), Frac(10000)))

\* C25, one step: a tick whose quote has a side beyond max_spread_deviation_bps tells
\* the tracker has_both_sides = false and returns, with no request sent and the
\* shadow map and the exchange's orders as they were.
C25_Step ==
    \A t \in Tasks, need_refresh \in BOOLEAN :
        (/\ BookTick(t, need_refresh)
         /\ mid_price # {}
         /\ BeyondDeviation(TickQuote(Val(mid_price)))) =>
            /\ uptime_args' = <<[has_both_sides |-> FALSE, spread_bps |-> 0]>>
            /\ tpc'[t] = "sleep"
            /\ UNCHANGED <<active_orders, placed, resting, texch, tord>>

\* C25: an invalid quote is not placed and its tick is inactive; and the quote of
\* the current mid price is within limits exactly when neither side lies beyond
\* max_spread_deviation_bps.
C25_InvalidQuoteNotPlaced ==
    /\ [](mid_price # {} =>
            (is_within_max_deviation(TickQuote(Val(mid_price)))
                <=> ~BeyondDeviation(TickQuote(Val(mid_price)))))
    /\ [][C25_Step]_vars

\* C25's case: the spread was set to 250 bps with both orders resting; the book is
\* two-sided, and the tick that followed was reported inactive
C25_Witness ==
    /\ settings_spread_bps = 250
    /\ mid_price = {101}
    /\ HasBothSides(active_orders)
    /\ uptime_args = <<[has_both_sides |-> FALSE, spread_bps |-> 0]>>
    /\ \E t \in Tasks : tpc[t] = "sleep"

\* C26: a tick that finds the book locked or crossed (the best bid at or above the
\* best ask) sends no place or cancel request and tells the tracker the tick was
\* inactive.
C26_Step ==
    \A t \in Tasks, need_refresh \in BOOLEAN :
        (/\ BookTick(t, need_refresh)
         /\ best_bid # {} /\ best_ask # {}
         /\ Val(best_bid) >= Val(best_ask)) =>
            /\ uptime_args' = <<[has_both_sides |-> FALSE, spread_bps |-> 0]>>
            /\ tpc'[t] = "sleep"
            /\ UNCHANGED <<active_orders, placed, resting, texch, tord>>

C26_LockedBookIsInvalid == [][C26_Step]_vars

\* C27: a tick with a valid quote that finds an open shadow order to refresh (a
\* proximity hit, a drift of the threshold or more, an order too old) starts the
\* cancel-all; it sends its first placement only when the orders that rested are
\* cancelled; and once it has sent a placement it sends no more cancels.
C27_Step ==
    \A t \in Tasks :
        /\ TickReconcile(t, TRUE) => tpc'[t] = "ca_query"
        /\ (/\ tpc[t] \in {"ca_query", "ca_cancel"}
            /\ tpc'[t] = "buy_sent"
            /\ HasBothSides(active_orders)) => resting' = {}
        /\ tpc[t] \in {"buy_sent", "buy_resp", "sell_sent", "sell_resp"} =>
               tpc'[t] \notin {"ca_query", "ca_cancel"}

C27_RefreshCancelsThenPlaces == [][C27_Step]_vars

\* C28: a tick that places finds no open order kept on either side, so it places
\* both sides; when both placements are accepted the shadow map ends the tick with
\* exactly one open bid and one open ask, the two orders just placed.
C28_Step ==
    \A t \in Tasks :
        /\ tpc'[t] = "buy_sent" /\ tpc[t] # "buy_sent" => active_orders' = {}
        /\ PlaceOrderReturns(t) /\ tpc[t] = "buy_resp" =>
               /\ active_orders' = {tord[t]}
               /\ placed[tord[t]] = "buy"
               /\ tpc'[t] = "sell_sent"
        /\ PlaceOrderReturns(t) /\ tpc[t] = "sell_resp" /\ active_orders # {} =>
               /\ Cardinality(open_bids') = 1
               /\ Cardinality(open_asks') = 1
               /\ active_orders' = active_orders \cup {tord[t]}
               /\ placed[tord[t]] = "sell"

C28_Replenish == [][C28_Step]_vars

\* C29: a tick that tells the tracker has_both_sides = True leaves the shadow map
\* with an open buy and an open sell order, and the spread it tells is the
\* configured settings.spread_bps, whatever the spread of the book is.
C29_Step ==
    \A t \in Tasks, spread_bps \in SpreadValues \cup {0} :
        (/\ tpc[t] \in TickPcs
         /\ tpc'[t] = "sleep"
         /\ consecutive_failures' = 0
         /\ uptime_args' = <<[has_both_sides |-> TRUE, spread_bps |-> spread_bps]>>)
        => /\ open_bids' # {}
           /\ open_asks' # {}
           /\ spread_bps = settings_spread_bps

C29_UptimeToldTheShadowMap == [][C29_Step]_vars

\* C29's case: over a book whose spread is 198 bps (100 / 102) a tick has told the
\* tracker that both sides are quoted at 5 bps
C29_Witness ==
    /\ uptime_args = <<[has_both_sides |-> TRUE, spread_bps |-> 5]>>
    /\ best_bid = {100}
    /\ best_ask = {102}
    /\ HasBothSides(active_orders)
    /\ \E t \in Tasks : tpc[t] = "sleep"

\* what C30 says of a placement that is answered with such a rejection: no order is
\* added to the shadow map, nothing is counted as a failure, after the bid the ask
\* is still sent, and after the ask the tick ends with its report to the tracker
C30_Continues(t) ==
    /\ active_orders' = active_orders
    /\ consecutive_failures' <= consecutive_failures
    /\ status' = status
    /\ tpc[t] = "buy_sent" => tpc'[t] = "sell_sent"
    /\ tpc[t] = "sell_sent" =>
           /\ tpc'[t] = "sleep"
           /\ consecutive_failures' = 0
           /\ uptime_args' = <<[has_both_sides |-> open_bids # {} /\ open_asks # {},
                                spread_bps |-> settings_spread_bps]>>

\* C30: a placement rejected with HTTP 400 and "qty" anywhere in the body returns
\* without raising: nothing enters the shadow map, the tick continues and is not
\* counted as a failure.
C30_QtyRejectionContinues ==
    [][\A t \in Tasks, qty_at \in QtyAt \ {0} :
          PlaceOrderFails(t, 400, qty_at) => C30_Continues(t)]_vars

\* the same for a body that has "qty" within its first 200 characters
C30_QtyInFirst200Continues ==
    [][\A t \in Tasks, qty_at \in {1, 198} :
          PlaceOrderFails(t, 400, qty_at) => C30_Continues(t)]_vars

\* C31: a placement that fails otherwise than by a quantity rejection (a 5xx, or a
\* 400 that does not name qty) raises out of the tick: no order enters the shadow
\* map and the failure counter grows by exactly one; while the counter is below
\* max_consecutive_failures the engine stays running and the task sleeps, and a
\* sleeping task of a running engine is resumed into the next tick.
C31_Step ==
    \A t \in Tasks, r \in {<<500, 0>>, <<500, 1>>, <<400, 0>>} :
        /\ PlaceOrderFails(t, r[1], r[2]) =>
               /\ consecutive_failures' = consecutive_failures + 1
               /\ active_orders' = active_orders
               /\ consecutive_failures' < max_consecutive_failures =>
                      /\ status' = status
                      /\ tpc'[t] = "sleep"
        /\ LoopHead(t) /\ tpc[t] = "sleep" /\ status = "running" => tpc'[t] = "flatten"

C31_FailureCountedAndRetried ==
    /\ [][C31_Step]_vars
    /\ [](\A t \in Tasks :
            (/\ tpc[t] = "sleep"
             /\ consecutive_failures \in 1..(max_consecutive_failures - 1))
            => status = "running" /\ ENABLED LoopHead(t))

\* C31's case: four ticks in a row have raised, and the loop is in its fifth tick
C31_Witness ==
    /\ consecutive_failures = max_consecutive_failures - 1
    /\ status = "running"
    /\ \E t \in Tasks : tpc[t] = "buy_sent"

\* C32: _cancel_order_by_id raises nothing, whatever the exchange answers; it
\* returns True for an accepted cancel and for 404 and 422, and False for every
\* other status and for every error of the connection.
C32_CancelByIdNeverRaises ==
    rest_call.helper = "_cancel_order_by_id" =>
        /\ rest_call.out.raises = {}
        /\ rest_call.out.returns = {rest_call.response \in {"200", "201", "404", "422"}}

\* C32's case: the exchange answered 422 (already filled or cancelled), and the
\* helper returned True
C32_Witness ==
    /\ rest_call.helper = "_cancel_order_by_id"
    /\ rest_call.response = "422"
    /\ rest_call.out.returns = {TRUE}

\* C33: a shadow order whose cancel the exchange has answered with success is no
\* longer open, and a shadow order that is not open never becomes open again (the
\* only orders that enter the open ones are those just placed).
C33_Step ==
    /\ \A t \in Tasks :
           TaskCancelAllCancel(t, TRUE) => Min(texch[t]) \notin active_orders'
    /\ \A o \in active_orders' \ active_orders :
           \E t \in Tasks : tord[t] = o /\ PlaceOrderReturns(t)

C33_ShadowStatusMoves == [][C33_Step]_vars

\* the first position of a call that is of the active symbol and not zero, if the
\* query succeeded
C34_Position ==
    IF rest_call.helper = "_check_and_close_positions" /\ rest_call.query = "200"
    THEN LET found == {i \in DOMAIN rest_call.positions :
                          /\ rest_call.positions[i].symbol = settings_symbol
                          /\ rest_call.positions[i].qty # 0}
         IN  IF found = {} THEN {} ELSE {rest_call.positions[Min(found)].qty}
    ELSE {}

\* C34: a flatten check that finds a non-zero position of the active symbol sends
\* exactly one reduce-only IOC market order, on the closing side, for the absolute
\* size of the position; no flatten check raises.
C34_ClosesTheWholePosition ==
    rest_call.helper = "_check_and_close_positions" =>
        /\ rest_call.out.raises = {}
        /\ \A qty \in C34_Position :
               rest_call.close # "AuthError" =>
                   /\ Len(rest_call.out.orders) = 1
                   /\ \A i \in DOMAIN rest_call.out.orders :
                          10 * rest_call.out.orders[i].qty = Abs(qty)

\* C34, with the rounding of the code: no flatten check raises; it sends at most
\* one order, and only for a non-zero position of the active symbol; the order is
\* a reduce-only IOC market order on the closing side, for the position's size
\* rounded to the nearest quantity tick, so for the whole position when that is
\* whole ticks; a position that rounds to no tick is left alone.
C34_ClosesTheRoundedPosition ==
    rest_call.helper = "_check_and_close_positions" =>
        /\ rest_call.out.raises = {}
        /\ Len(rest_call.out.orders) <= 1
        /\ C34_Position = {} => rest_call.out.orders = <<>>
        /\ \A qty \in C34_Position :
               /\ (rest_call.out.orders # <<>>) =
                      (Abs(qty) >= 5 /\ rest_call.close # "AuthError")
               /\ \A i \in DOMAIN rest_call.out.orders :
                      LET order == rest_call.out.orders[i]
                      IN  /\ order.side = IF qty > 0 THEN "sell" ELSE "buy"
                          /\ order.order_type = "market"
                          /\ order.time_in_force = "ioc"
                          /\ order.reduce_only
                          /\ 10 * order.qty - Abs(qty) \in -4..4
                          /\ Abs(qty) % 10 = 0 => 10 * order.qty = Abs(qty)

\* C34's case: a long position of one tick, listed after a position of another
\* symbol, is closed by one sell although the exchange then fails the order
C34_Witness ==
    /\ rest_call.helper = "_check_and_close_positions"
    /\ Len(rest_call.positions) = 2
    /\ rest_call.positions[1].symbol # settings_symbol
    /\ rest_call.positions[1].qty # 0
    /\ C34_Position = {10}
    /\ rest_call.close = "400"
    /\ Len(rest_call.out.orders) = 1
    /\ rest_call.out.raises = {}

\* the book as reset(requested) leaves it
C35_BookIsReset(requested) ==
    /\ ob_symbol = requested
    /\ ob_bids = EmptySide
    /\ ob_asks = EmptySide

\* what C35 says of a switch over a socket: the unsubscribe goes out first, with
\* the book untouched; when it is sent the old symbol is off the subscriptions,
\* the book is empty under the new symbol and the new symbol is not subscribed
\* yet; the subscribe of the new symbol comes last, and leaves the book alone
C35_OverTheSocket ==
    /\ \A req \in Requests :
           ConfigSwitchesStopped(req) /\ ws =>
               /\ cfg_pc' = "unsub_sent"
               /\ UNCHANGED <<bookVars, feedVars>>
    /\ ConfigUnsubDone(TRUE) =>
           /\ subscribed' = subscribed \ {ob_symbol}
           /\ C35_BookIsReset(CHOOSE s \in cfg_req.symbol : TRUE)'
           /\ cfg_pc' = "sub_sent"
    /\ ConfigUnsubDone(FALSE) =>
           /\ subscribed' = subscribed
           /\ C35_BookIsReset(CHOOSE s \in cfg_req.symbol : TRUE)'
           /\ cfg_pc' = "sub_sent"
    /\ ConfigSubDone(TRUE) =>
           /\ subscribed' = subscribed \cup {CHOOSE s \in cfg_req.symbol : TRUE}
           /\ UNCHANGED bookVars

\* C35: switch_symbol over a socket unsubscribes the old symbol, then resets the
\* book to the new symbol, then subscribes the new symbol; without a socket it
\* sends nothing and leaves the order book as it is.
C35_NoSocketNoOp ==
    [][/\ C35_OverTheSocket
       /\ \A req \in Requests :
              ConfigSwitchesStopped(req) /\ ~ws => UNCHANGED <<bookVars, feedVars>>]_vars

\* C35, as the code has it: the same over a socket; without a socket nothing is
\* sent, and the book is still emptied and given the new symbol.
C35_SwitchSymbol ==
    [][/\ C35_OverTheSocket
       /\ \A req \in Requests :
              ConfigSwitchesStopped(req) /\ ~ws =>
                  /\ UNCHANGED feedVars
                  /\ C35_BookIsReset(CHOOSE s \in req.symbol : TRUE)']_vars

\* C35's case: the book was switched to ETH-USD over the socket; BTC-USD is
\* unsubscribed and the subscribe of ETH-USD is on its way
C35_Witness ==
    /\ ws /\ conn = "open"
    /\ cfg_pc = "sub_sent"
    /\ C35_BookIsReset("ETH-USD")
    /\ subscribed = {}

\* C36: whenever no tick is in progress (every task is before its first tick,
\* asleep between two ticks, or ended) the shadow map holds at most one open buy
\* order and at most one open sell order.
C36_OnePerSideBetweenTicks ==
    (\A t \in Tasks : tpc[t] \in {"unborn", "new", "sleep", "done"}) =>
        /\ Cardinality(open_bids) <= 1
        /\ Cardinality(open_asks) <= 1

\* a tick over the present book and configuration has a valid quote
C37_ValidQuote == mid_price # {} /\ is_within_max_deviation(TickQuote(Val(mid_price)))

\* C37, the hold step: a tick with a valid quote that finds an open bid and an open
\* ask and nothing to refresh sends no cancel and no placement, leaves the shadow
\* map as it is and reports both sides to the tracker
C37_Step ==
    \A t \in Tasks :
        (BookTick(t, FALSE) /\ C37_ValidQuote /\ HasBothSides(active_orders)) =>
            /\ UNCHANGED <<active_orders, resting, placed, tord, texch>>
            /\ tpc'[t] = "sleep"
            /\ uptime_args' = <<[has_both_sides |-> TRUE, spread_bps |-> settings_spread_bps]>>

C38_Step ==
    \A t \in Tasks :
        LET AllPcs == CancelAllPcs \cup ErrPcs
        IN  /\ (tpc[t] \in AllPcs /\ tpc'[t] \notin AllPcs) =>
                   /\ active_orders' = {}
                   /\ tpc'[t] = AfterCancelAll(t)
                   /\ UNCHANGED <<consecutive_failures, status>>
            /\ TaskCancelAllQuery(t, FALSE) =>
                   /\ tpc'[t] \notin AllPcs
                   /\ resting' = resting
            /\ TaskCancelAllCancel(t, FALSE) =>
                   /\ resting' = resting
                   /\ texch'[t] = texch[t] \ {Min(texch[t])}
                   /\ texch'[t] # {} => tpc'[t] = tpc[t]

C38_CancelAllNeverRaises == [][C38_Step]_vars

\* C38's case: the open-orders query of a tick's cancel-all failed; the two orders
\* still rest, the shadow map is empty and the tick is about to place
C38_Witness ==
    /\ \E t \in Tasks : tpc[t] = "buy_sent"
    /\ active_orders = {}
    /\ Cardinality(resting) = 2

\* the shadow map holds open orders, and not on both sides
C39_OneSided == active_orders # {} /\ ~HasBothSides(active_orders)

\* C39: a tick that finds an open order on one side only does not place the
\* missing side beside it: it starts the cancel-all, and when the cancel-all is
\* over nothing rests, the shadow map is empty and the tick places a new bid first
\* (the new ask follows it).
C39_Step ==
    \A t \in Tasks :
        /\ \A need_refresh \in BOOLEAN :
               TickReconcile(t, need_refresh) /\ C39_OneSided => tpc'[t] = "ca_query"
        /\ (tpc[t] \in CancelAllPcs /\ tpc'[t] \notin CancelAllPcs /\ C39_OneSided) =>
               /\ tpc'[t] = "buy_sent"
               /\ active_orders' = {}
               /\ resting' = {}

C39_NoOneSidedBookKept == [][C39_Step]_vars

====
